---- MODULE Spec2Model ----
(***************************************************************************)
(* The webhook handler of the Vuetify JsonForms form trigger               *)
(* (VuetifyJsonFormsTrigger.webhook) with the helpers it calls:            *)
(* validateWebhookAuthentication, formatPrivateKey and                     *)
(* validateResponseModeConfiguration.  One behaviour is one request served *)
(* under one node configuration; the handler's position is pc.             *)
(*                                                                         *)
(* Strings the code only compares (users, passwords, tokens, header        *)
(* values) are numbers 0..MaxStr, 0 being the empty string.  Strings the   *)
(* code takes apart (a PEM key) are sequences of tokens.                   *)
(***************************************************************************)
EXTENDS Integers, Sequences, FiniteSets, TLC

\* Number of distinct non-empty strings for users, passwords, tokens and
\* header values.
MaxStr == 2

Str == 0..MaxStr
NonEmptyStr == 1..MaxStr

(***************************************************************************)
(* Request headers                                                         *)
(***************************************************************************)

\* The Authorization header, as the text "<scheme> <credentials>".
\*   kind "userpass": credentials are base64(a ":" b)
\*   kind "token"   : credentials are the opaque string a
\*   kind "jwt"     : credentials are a JWT whose header names alg and whose
\*                    signature verifies under key
\*   kind "none"    : the header has a scheme and nothing after it
NoKey == << >>

NoAuthorization ==
    [scheme |-> "absent", kind |-> "none", a |-> 0, b |-> 0, alg |-> "", key |-> NoKey]

BasicHeader(scheme, name, pass) ==
    [scheme |-> scheme, kind |-> "userpass", a |-> name, b |-> pass, alg |-> "", key |-> NoKey]

TokenHeader(scheme, tok) ==
    [scheme |-> scheme, kind |-> "token", a |-> tok, b |-> 0, alg |-> "", key |-> NoKey]

JwtHeader(scheme, alg, key) ==
    [scheme |-> scheme, kind |-> "jwt", a |-> 0, b |-> 0, alg |-> alg, key |-> key]

SchemeOnly(scheme) ==
    [scheme |-> scheme, kind |-> "none", a |-> 0, b |-> 0, alg |-> "", key |-> NoKey]

\* A header name: Node lower-cases the names of incoming headers, a stored
\* credential may spell its header name with capitals.
HeaderName(id, upper) == [id |-> id, upper |-> upper]

toLowerCase(n) == [n EXCEPT !.upper = FALSE]

\* One custom header of the request (present or not).
NoCustomHeader == [present |-> FALSE, name |-> HeaderName(0, FALSE), value |-> 0]

CustomHeader(id, v) == [present |-> TRUE, name |-> HeaderName(id, FALSE), value |-> v]

(***************************************************************************)
(* PEM keys and formatPrivateKey                                           *)
(***************************************************************************)

Dashes == "-----"
Newline == "\n"
EscapedNewline == "\\n"
Space == " "

IsWhitespace(t) == t \in {Space, Newline}

\* /(PRIVATE KEY|CERTIFICATE)/ and /(PUBLIC KEY)/ tested on one token (the
\* handler formats public keys only, so a PEM header line is one token)
MatchesPrivate(t) == t \in {"BEGIN PRIVATE KEY", "END PRIVATE KEY", "BEGIN CERTIFICATE", "END CERTIFICATE"}
MatchesPublic(t) == t \in {"BEGIN PUBLIC KEY", "END PUBLIC KEY"}

RECURSIVE SplitOn(_, _, _)
\* s.split(sep): the parts of s between the occurrences of sep; cur is the
\* part being read.
SplitOn(s, sep, cur) ==
    IF s = << >> THEN << cur >>
    ELSE IF Head(s) = sep THEN << cur >> \o SplitOn(Tail(s), sep, << >>)
    ELSE SplitOn(Tail(s), sep, Append(cur, Head(s)))

RECURSIVE ReplaceEscaped(_)
\* part.replace(/\\n/g, "\n")
ReplaceEscaped(p) ==
    IF p = << >> THEN << >>
    ELSE << (IF Head(p) = EscapedNewline THEN Newline ELSE Head(p)) >> \o ReplaceEscaped(Tail(p))

RECURSIVE CollapseWhitespace(_, _)
\* part.replace(/\s+/g, "\n"): every run of whitespace becomes one newline
CollapseWhitespace(p, inRun) ==
    IF p = << >> THEN << >>
    ELSE IF IsWhitespace(Head(p))
         THEN (IF inRun THEN << >> ELSE << Newline >>) \o CollapseWhitespace(Tail(p), TRUE)
         ELSE << Head(p) >> \o CollapseWhitespace(Tail(p), FALSE)

RECURSIVE FormatParts(_, _)
FormatParts(parts, keyIsPublic) ==
    IF parts = << >> THEN << >>
    ELSE LET part == Head(parts)
             hit == \E i \in 1..Len(part) :
                        IF keyIsPublic THEN MatchesPublic(part[i]) ELSE MatchesPrivate(part[i])
         IN  (IF hit THEN << Dashes >> \o part \o << Dashes >>
              ELSE CollapseWhitespace(ReplaceEscaped(part), FALSE))
             \o FormatParts(Tail(parts), keyIsPublic)

formatPrivateKey(privateKey, keyIsPublic) ==
    IF privateKey = << >> \/ (\E i \in 1..Len(privateKey) : privateKey[i] = Newline)
    THEN privateKey
    ELSE FormatParts(SelectSeq(SplitOn(privateKey, Dashes, << >>), LAMBDA p : p # << >>),
                     keyIsPublic)

\* A public key pasted on one line, the same key in PEM layout, and a
\* second key in PEM layout.
PemOneLine ==
    << Dashes, "BEGIN PUBLIC KEY", Dashes, Space, "MIIB", Space, "AQAB", Space,
       Dashes, "END PUBLIC KEY", Dashes >>

PemLines ==
    << Dashes, "BEGIN PUBLIC KEY", Dashes, Newline, "MIIB", Newline, "AQAB", Newline,
       Dashes, "END PUBLIC KEY", Dashes >>

PemEscaped ==
    << Dashes, "BEGIN PUBLIC KEY", Dashes, EscapedNewline, "MIIB", EscapedNewline, "AQAB",
       EscapedNewline, Dashes, "END PUBLIC KEY", Dashes >>

OtherPemLines ==
    << Dashes, "BEGIN PUBLIC KEY", Dashes, Newline, "MIIC", Newline, "AQAB", Newline,
       Dashes, "END PUBLIC KEY", Dashes >>

Secret(i) == << "secret", IF i = 1 THEN "one" ELSE "more" >>

(***************************************************************************)
(* Stored credentials (the host's credential store)                        *)
(***************************************************************************)

Algorithms == {"HS256", "RS256"}

NoCredential ==
    [type |-> "none", user |-> 0, password |-> 0, token |-> 0,
     name |-> HeaderName(0, FALSE), value |-> 0,
     keyType |-> "", secret |-> NoKey, publicKey |-> NoKey, algorithm |-> ""]

BasicCredential(u, p) == [NoCredential EXCEPT !.type = "httpBasicAuth", !.user = u, !.password = p]

BearerCredential(t) == [NoCredential EXCEPT !.type = "httpBearerAuth", !.token = t]

HeaderCredential(n, v) == [NoCredential EXCEPT !.type = "httpHeaderAuth", !.name = n, !.value = v]

JwtCredential(kt, sec, pub, alg) ==
    [NoCredential EXCEPT !.type = "jwtAuth", !.keyType = kt, !.secret = sec,
                         !.publicKey = pub, !.algorithm = alg]

\* expectedAuth after "try { expectedAuth = await ctx.getCredentials(type) } catch {}":
\* the stored credential of that type, or undefined.
Undefined == [NoCredential EXCEPT !.type = "undefined"]

getCredentials(store, type) == IF store.type = type THEN store ELSE Undefined

\* The credential type each authentication mode looks up; "" when the mode
\* looks nothing up.
CredentialType(authentication) ==
    CASE authentication = "basicAuth"  -> "httpBasicAuth"
      [] authentication = "bearerAuth" -> "httpBearerAuth"
      [] authentication = "headerAuth" -> "httpHeaderAuth"
      [] authentication = "jwtAuth"    -> "jwtAuth"
      [] OTHER                         -> ""

(***************************************************************************)
(* The libraries validateWebhookAuthentication calls                       *)
(***************************************************************************)

\* isbot(req.headers["user-agent"])
isbot(userAgent) == userAgent \in {"Googlebot", "curl"}

\* basicAuth(req): the name and password of a well-formed HTTP Basic
\* header (the scheme is matched without regard to case), else undefined.
basicAuthParse(authorization) ==
    IF authorization.scheme \in {"Basic", "basic"} /\ authorization.kind = "userpass"
    THEN [defined |-> TRUE, name |-> authorization.a, pass |-> authorization.b]
    ELSE [defined |-> FALSE, name |-> 0, pass |-> 0]

\* authHeader?.split(" ")[1]: the text after the first blank, whatever the scheme.
HasToken(authorization) == authorization.scheme # "absent" /\ authorization.kind # "none"

\* jwt.verify(token, secretOrPublicKey, {algorithms}): the token is a JWT, its
\* header's alg is one of algorithms and its signature verifies under the key.
jwtVerify(authorization, secretOrPublicKey, algorithms) ==
    /\ authorization.kind = "jwt"
    /\ authorization.alg \in algorithms
    /\ secretOrPublicKey # NoKey
    /\ authorization.key = secretOrPublicKey

(***************************************************************************)
(* validateWebhookAuthentication, after the credential lookup              *)
(***************************************************************************)

\* The algorithms and the key handed to jwt.verify.
JwtAlgorithmsFromToken(expectedAuth, authorization) == {authorization.alg}

JwtAlgorithms(expectedAuth, authorization) == {expectedAuth.algorithm}

JwtKey(expectedAuth) ==
    IF expectedAuth.keyType = "passphrase"
    THEN expectedAuth.secret
    ELSE formatPrivateKey(expectedAuth.publicKey, TRUE)

\* 0 when the request is accepted, else the responseCode of the
\* WebhookAuthorizationError thrown.
BasicAuthCodeHeaderFirst(expectedAuth, headers) ==
    LET providedAuth == basicAuthParse(headers.authorization)
    IN  IF ~providedAuth.defined THEN 401
        ELSE IF expectedAuth.type = "undefined" \/ expectedAuth.user = 0 \/ expectedAuth.password = 0
        THEN 500
        ELSE IF providedAuth.name # expectedAuth.user \/ providedAuth.pass # expectedAuth.password
        THEN 403
        ELSE 0

BasicAuthCode(expectedAuth, headers) ==
    LET providedAuth == basicAuthParse(headers.authorization)
    IN  IF expectedAuth.type = "undefined" \/ expectedAuth.user = 0 \/ expectedAuth.password = 0
        THEN 500
        ELSE IF ~providedAuth.defined THEN 401
        ELSE IF providedAuth.name # expectedAuth.user \/ providedAuth.pass # expectedAuth.password
        THEN 403
        ELSE 0

BearerAuthCode(expectedAuth, headers) ==
    LET expectedToken == IF expectedAuth.type = "undefined" THEN 0 ELSE expectedAuth.token
    IN  IF expectedToken = 0 THEN 500
        ELSE IF headers.authorization # TokenHeader("Bearer", expectedToken) THEN 403
        ELSE 0

HeaderAuthCodeCaseSensitive(expectedAuth, headers) ==
    IF expectedAuth.type = "undefined" \/ expectedAuth.name.id = 0 \/ expectedAuth.value = 0
    THEN 500
    ELSE IF ~(headers.custom.present /\ headers.custom.name = expectedAuth.name)
            \/ headers.custom.value # expectedAuth.value
    THEN 403
    ELSE 0

HeaderAuthCode(expectedAuth, headers) ==
    IF expectedAuth.type = "undefined" \/ expectedAuth.name.id = 0 \/ expectedAuth.value = 0
    THEN 500
    ELSE LET headerName == toLowerCase(expectedAuth.name)
             expectedValue == expectedAuth.value
         IN  IF ~(headers.custom.present /\ headers.custom.name = headerName)
                \/ headers.custom.value # expectedValue
             THEN 403
             ELSE 0

JwtAuthCode(expectedAuth, headers) ==
    IF expectedAuth.type = "undefined" THEN 500
    ELSE IF ~HasToken(headers.authorization) THEN 401
    ELSE IF jwtVerify(headers.authorization, JwtKey(expectedAuth),
                      JwtAlgorithms(expectedAuth, headers.authorization))
    THEN 0
    ELSE 403

AuthCode(authentication, expectedAuth, headers) ==
    CASE authentication = "basicAuth"  -> BasicAuthCode(expectedAuth, headers)
      [] authentication = "bearerAuth" -> BearerAuthCode(expectedAuth, headers)
      [] authentication = "headerAuth" -> HeaderAuthCode(expectedAuth, headers)
      [] authentication = "jwtAuth"    -> JwtAuthCode(expectedAuth, headers)
      [] OTHER                         -> 0

(***************************************************************************)
(* JSON values, JSON Schemas and the module-level Ajv instance             *)
(***************************************************************************)

PropNames == {"name", "email"}
PropOrder == << "name", "email" >>
PropValues == {"Jo", "jo@x.com"}

\* A JSON value: undefined (the key is missing), a string, or an object
\* with some of the properties.
UndefinedValue == [kind |-> "undefined", props |-> << >>]
StringValue == [kind |-> "string", props |-> << >>]
ObjectValue(f) == [kind |-> "object", props |-> f]

Objects == UNION {[D -> PropValues] : D \in SUBSET PropNames}

JsonValues == {UndefinedValue, StringValue} \cup {ObjectValue(f) : f \in Objects}

\* The "email" format of ajv-formats.
IsEmail(v) == v = "jo@x.com"

\* A configured schema string:
\*   text "unparsable" : JSON.parse(schema) throws
\*   text "unset"      : the option is not set (or is the empty string)
\*   type "any"        : {}
\*   type "object"     : {type: "object", properties, required, additionalProperties}
\* properties maps a property name to its format ("" or "email"); defaults
\* maps the properties that carry a "default" to that value.
SchemaOf(text, type, properties, required, defaults, additional) ==
    [text |-> text, type |-> type, properties |-> properties, required |-> required,
     defaults |-> defaults, additionalProperties |-> additional]

UnparsableSchema == SchemaOf("unparsable", "any", << >>, {}, << >>, TRUE)
UnsetSchema == SchemaOf("unset", "any", << >>, {}, << >>, TRUE)
AnySchema == SchemaOf("json", "any", << >>, {}, << >>, TRUE)

\* The node's default schema, cut to the two properties of the model.
DefaultSchema ==
    SchemaOf("json", "object", [name |-> "", email |-> "email"], {"name", "email"}, << >>, FALSE)

\* A schema whose property name carries a default value.
DefaultingSchema ==
    SchemaOf("json", "object", [name |-> "", email |-> "email"], {"name"}, [name |-> "Jo"], TRUE)

\* A schema that knows one property only and refuses the others.
NameOnlySchema ==
    SchemaOf("json", "object", [name |-> ""], {}, << >>, FALSE)

\* A schema that carries an $id.
IdentifiedSchema ==
    SchemaOf("json", "object", [email |-> "email"], {"email"}, << >>, TRUE)

\* useDefaults: the properties that are missing from the data and carry a
\* default in the schema are added to the data, before the object's
\* keywords are evaluated.
assignDefaultsOff(schema, value) == value

assignDefaults(schema, value) ==
    IF schema.type = "object" /\ value.kind = "object"
    THEN ObjectValue([p \in DOMAIN value.props \cup DOMAIN schema.defaults |->
                         IF p \in DOMAIN value.props THEN value.props[p] ELSE schema.defaults[p]])
    ELSE value

RECURSIVE ErrorsFrom(_, _, _)
\* The errors of an object against an object schema, property by property
\* (allErrors: every failing keyword reports).
ErrorsFrom(schema, props, i) ==
    IF i > Len(PropOrder) THEN << >>
    ELSE LET p == PropOrder[i]
             missing == p \in schema.required /\ p \notin DOMAIN props
             extra == /\ p \in DOMAIN props
                      /\ p \notin DOMAIN schema.properties
                      /\ ~schema.additionalProperties
             format == /\ p \in DOMAIN props
                       /\ p \in DOMAIN schema.properties
                       /\ schema.properties[p] = "email"
                       /\ ~IsEmail(props[p])
         IN  (IF missing THEN << [keyword |-> "required", property |-> p] >> ELSE << >>)
             \o (IF extra THEN << [keyword |-> "additionalProperties", property |-> p] >> ELSE << >>)
             \o (IF format THEN << [keyword |-> "format", property |-> p] >> ELSE << >>)
             \o ErrorsFrom(schema, props, i + 1)

\* validate(value) of the function ajv.compile(schema) returns: the value
\* as the call leaves it and validate.errors (empty: the call returned true).
validate(schema, value) ==
    IF schema.type = "any" THEN [data |-> value, errors |-> << >>]
    ELSE IF value.kind # "object"
    THEN [data |-> value, errors |-> << [keyword |-> "type", property |-> ""] >>]
    ELSE LET withDefaults == assignDefaults(schema, value)
         IN  [data |-> withDefaults, errors |-> ErrorsFrom(schema, withDefaults.props, 1)]

\* The request body: text JSON.parse cannot read, the JSON text "null", or
\* an object with the keys data and event (each possibly missing).
UnparsableBody == [parse |-> "throws", data |-> UndefinedValue, event |-> UndefinedValue]
NullBody == [parse |-> "null", data |-> UndefinedValue, event |-> UndefinedValue]
ObjectBody(d, e) == [parse |-> "object", data |-> d, event |-> e]

(***************************************************************************)
(* The workflow graph and validateResponseModeConfiguration                *)
(***************************************************************************)

RESPOND_TO_WEBHOOK_NODE_TYPE == "n8n-nodes-base.respondToWebhook"
FORM_NODE_TYPE == "n8n-nodes-base.form"
WAIT_NODE_TYPE == "n8n-nodes-base.wait"

Node(type, resume) == [type |-> type, resume |-> resume]

\* The nodes that may be wired downstream of the trigger.
NodeKinds ==
    { Node(RESPOND_TO_WEBHOOK_NODE_TYPE, ""), Node(FORM_NODE_TYPE, ""),
      Node(WAIT_NODE_TYPE, "form"), Node(WAIT_NODE_TYPE, "webhook") }

ResponseModes == {"onReceived", "lastNode", "responseNode"}

\* typeVersion of the trigger node, times ten (the comparison is with 2.1).
TypeVersions == {10, 21, 22}

isRespondToWebhookConnected(connectedNodes) ==
    \E node \in connectedNodes : node.type = RESPOND_TO_WEBHOOK_NODE_TYPE

\* "" when validateResponseModeConfiguration returns, else the message of
\* the NodeOperationError it throws.
validateResponseModeConfigurationLenient(responseMode, connectedNodes, nodeVersion) == ""

\* validateResponseModeConfiguration without its last check, the one on
\* nodeVersion > 2.1.
validateResponseModeConfigurationAnyVersion(responseMode, connectedNodes, nodeVersion) ==
    IF ~isRespondToWebhookConnected(connectedNodes) /\ responseMode = "responseNode"
    THEN "No Respond to Webhook node found in the workflow"
    ELSE IF /\ isRespondToWebhookConnected(connectedNodes)
            /\ responseMode # "responseNode"
            /\ nodeVersion <= 21
    THEN "node not correctly configured"
    ELSE ""

validateResponseModeConfiguration(responseMode, connectedNodes, nodeVersion) ==
    IF ~isRespondToWebhookConnected(connectedNodes) /\ responseMode = "responseNode"
    THEN "No Respond to Webhook node found in the workflow"
    ELSE IF /\ isRespondToWebhookConnected(connectedNodes)
            /\ responseMode # "responseNode"
            /\ nodeVersion <= 21
    THEN "node not correctly configured"
    ELSE IF isRespondToWebhookConnected(connectedNodes) /\ nodeVersion > 21
    THEN "The Respond to Webhook node is not supported"
    ELSE ""

(***************************************************************************)
(* State                                                                   *)
(***************************************************************************)

VARIABLES
    params,        \* the node's parameters (getNodeParameter)
    credentials,   \* the credential stored for the node (getCredentials)
    workflow,      \* child nodes, typeVersion, timezone, execution mode
    req,           \* the request being served
    pc,            \* where the handler stands
    expectedAuth,  \* validateWebhookAuthentication's local after the lookup
    error,         \* responseCode of the WebhookAuthorizationError in flight, else 0
    jwtCall,       \* the arguments of the jwt.verify call, once made
    res,           \* the HTTP response object
    ret,           \* what webhook returned or threw
    log,           \* the calls made so far, in order
    ajv,           \* the module's Ajv instance: the schemas compiled, the ids it holds
    pages,         \* the pages sent so far by the process, in order
    requests,      \* how many requests the process has taken
    parked,        \* the invocation that waits at an await while another runs
    document,      \* the page in the browser
    interval,      \* the inline script's interval
    timeoutId,     \* the inline script's timeoutId, 0 while undefined
    formWaitingUrl,\* whether the inline script's formWaitingUrl is set
    timers,        \* the checkExecutionStatus timers that are pending
    timerCount,    \* how many timers the page has set
    fetches,       \* the fetch calls that are in flight
    execution,     \* what the execution-status endpoint answers now
    observed       \* what the last checkExecutionStatus run did, and more

vars ==
    << params, credentials, workflow, req, pc, expectedAuth, error, jwtCall, res, ret, log,
       ajv, pages, requests, parked, document, interval, timeoutId, formWaitingUrl,
       timers, timerCount, fetches, execution, observed >>

config == << params, credentials, workflow, req >>

\* What outlives a request.
process == << ajv, pages, requests, parked >>

\* The browser's side.
browser ==
    << document, interval, timeoutId, formWaitingUrl, timers, timerCount, fetches,
       execution, observed >>

(***************************************************************************)
(* Strings and the page of generateFormHtml                                *)
(*                                                                         *)
(* A string is a sequence of tokens: a token is one of the characters the  *)
(* encodings treat specially, or a run of characters they leave alone.     *)
(***************************************************************************)

MaxText == 2

Quote == "\""
Backslash == "\\"
Slash == "/"
LineFeed == "\n"
LessThan == "<"
Apostrophe == "'"

Chars == {"a", Quote, Backslash, Slash, LineFeed, LessThan, Apostrophe}

Strings == UNION {[1..n -> Chars] : n \in 0..MaxText}

\* A parameter or option that may be unset.
NoText == [defined |-> FALSE, text |-> << >>]
Text(t) == [defined |-> TRUE, text |-> t]

\* JavaScript truthiness of a string that may be undefined.
Truthy(x) == x.defined /\ x.text # << >>

RECURSIVE FlatMap(_, _)
FlatMap(Op(_), text) ==
    IF text = << >> THEN << >> ELSE Op(Head(text)) \o FlatMap(Op, Tail(text))

\* JSON.stringify of a string: the text between double quotes, with the
\* double quote, the backslash and the line feed escaped.
JSONStringifyRaw(text) == << Quote >> \o text \o << Quote >>

JSONStringify(text) ==
    LET escape(c) == IF c = Quote THEN << Backslash, Quote >>
                     ELSE IF c = Backslash THEN << Backslash, Backslash >>
                     ELSE IF c = LineFeed THEN << Backslash, "n" >>
                     ELSE << c >>
    IN  << Quote >> \o FlatMap(escape, text) \o << Quote >>

\* No replacement: the text as it is.
EscapeSlashesOff(text) == text

\* .replace(/\//g, "\\/")
EscapeSlashes(text) ==
    LET escape(c) == IF c = Slash THEN << Backslash, Slash >> ELSE << c >>
    IN  FlatMap(escape, text)

\* The value a browser gives a double-quoted JavaScript string literal:
\* ok is FALSE when the tokens are not one such literal.
RECURSIVE JsStringBody(_, _)
JsStringBody(tokens, value) ==
    IF tokens = << >> THEN [ok |-> FALSE, value |-> value]
    ELSE IF Head(tokens) = Quote THEN [ok |-> Tail(tokens) = << >>, value |-> value]
    ELSE IF Head(tokens) = LineFeed THEN [ok |-> FALSE, value |-> value]
    ELSE IF Head(tokens) = Backslash
    THEN IF Len(tokens) < 2 THEN [ok |-> FALSE, value |-> value]
         ELSE JsStringBody(Tail(Tail(tokens)),
                           Append(value, IF tokens[2] = "n" THEN LineFeed ELSE tokens[2]))
    ELSE JsStringBody(Tail(tokens), Append(value, Head(tokens)))

JsStringValue(literal) ==
    IF literal = << >> \/ Head(literal) # Quote THEN [ok |-> FALSE, value |-> << >>]
    ELSE JsStringBody(Tail(literal), << >>)

\* The string behind each schema of the model, shortened.
SchemaSource(schema) ==
    IF schema = DefaultSchema
    THEN << "{", LineFeed, "  ", Quote, "$schema", Quote, ": ", Quote, "http:", Slash, Slash,
            "json-schema.org", Slash, "draft-07", Slash, "schema#", Quote, LineFeed, "}" >>
    ELSE IF schema = DefaultingSchema
    THEN << "{", Quote, "default", Quote, ":", Quote, "Jo", Quote, "}" >>
    ELSE IF schema = NameOnlySchema
    THEN << "{", Quote, "name", Quote, ":{}}" >>
    ELSE IF schema = AnySchema
    THEN << "{}" >>
    ELSE IF schema = IdentifiedSchema
    THEN << "{", Quote, "$id", Quote, ":", Quote, "urn:form", Quote, "}" >>
    ELSE IF schema = UnparsableSchema
    THEN << "{", LessThan, Slash, "script>", Backslash >>
    ELSE << >>

\* sanitizeCustomCss: undefined for a falsy argument, else the text with
\* its markup removed.
sanitizeCustomCss(css) ==
    IF ~Truthy(css) THEN NoText
    ELSE Text(SelectSeq(css.text, LAMBDA c : c # LessThan))

\* isFormConnected that looks for form nodes only.
isFormConnectedFormOnly(nodes) == \E n \in nodes : n.type = FORM_NODE_TYPE

isFormConnected(nodes) ==
    \E n \in nodes :
        \/ n.type = FORM_NODE_TYPE
        \/ n.type = WAIT_NODE_TYPE /\ n.resume = "form"

\* options.respondWithOptions, when set: its values.
NoRespondWith ==
    [present |-> FALSE, respondWith |-> "", formSubmittedText |-> NoText, redirectUrl |-> NoText]

RespondWith(respondWith, formSubmittedText, redirectUrl) ==
    [present |-> TRUE, respondWith |-> respondWith, formSubmittedText |-> formSubmittedText,
     redirectUrl |-> redirectUrl]

DefaultSubmittedText == Text(<< "Your response has been recorded" >>)

\* options.customCss as it is.
dangerousCustomCssRaw(options) == options.customCss

\* const dangerousCustomCss = sanitizeCustomCss(options.customCss)
dangerousCustomCss(options) == sanitizeCustomCss(options.customCss)

\* One form.setAttribute(name, literal) statement of the inline script.
SetAttribute(name, text) ==
    [attr |-> name, literal |-> EscapeSlashes(JSONStringify(text))]

\* A page that carries the data attribute only on the first GET the
\* process answers.
generateFormHtmlOnce(p, connectedNodes) ==
    [style |-> NoText, submittedContent |-> DefaultSubmittedText, redirectUrl |-> NoText,
     useResponseData |-> FALSE,
     script |-> (IF pages = << >> THEN << SetAttribute("data", p.data.text) >> ELSE << >>)
                \o << SetAttribute("schema", SchemaSource(p.jsonSchema)) >>]

\* The page, as the parts of it that depend on the configuration: the
\* custom <style> block, the #submitted-content paragraph, the #redirectUrl
\* anchor, the value of the #useResponseData input, and the setAttribute
\* statements of the inline script in their order.
generateFormHtml(p, connectedNodes) ==
    LET options == p.options
        respond == options.respondWithOptions
        configuredText ==
            IF respond.present
            THEN IF respond.respondWith = "text" THEN respond.formSubmittedText ELSE NoText
            ELSE options.formSubmittedText
        configuredUrl ==
            IF respond.present /\ respond.respondWith = "redirect" THEN respond.redirectUrl
            ELSE NoText
        hasNextPage == isFormConnected(connectedNodes)
        redirectUrl == IF hasNextPage THEN NoText ELSE configuredUrl
        responseMode == IF hasNextPage THEN "responseNode" ELSE p.responseMode
        formSubmittedText ==
            IF configuredText.defined THEN configuredText ELSE DefaultSubmittedText
        css == dangerousCustomCss(options)
        slot(name, x) == IF x.defined THEN << SetAttribute(name, x.text) >> ELSE << >>
        option(name, x) == IF Truthy(x) THEN << SetAttribute(name, x.text) >> ELSE << >>
    IN  [style |-> IF Truthy(css) THEN css ELSE NoText,
         submittedContent |-> IF Truthy(formSubmittedText) THEN formSubmittedText ELSE NoText,
         redirectUrl |-> IF Truthy(redirectUrl) THEN redirectUrl ELSE NoText,
         useResponseData |-> responseMode = "responseNode",
         script |->
             slot("data", p.data)
             \o slot("schema", Text(SchemaSource(p.jsonSchema)))
             \o slot("uischema", p.uiSchema)
             \o slot("config", p.config)
             \o option("vuetify-options", options.vuetifyOptions)
             \o (IF Truthy(options.customStyle)
                 THEN << SetAttribute("custom-style", sanitizeCustomCss(options.customStyle).text) >>
                 ELSE << >>)
             \o option("validation-mode", options.validationMode)
             \o (IF options.readonly = "true"
                 THEN << [attr |-> "readonly", literal |-> << Apostrophe, Apostrophe >>] >>
                 ELSE << >>)]

NoPage ==
    [style |-> NoText, submittedContent |-> NoText, redirectUrl |-> NoText,
     useResponseData |-> FALSE, script |-> << >>]

NoResponse ==
    [statusCode |-> 0, headers |-> {}, body |-> "", message |-> "", errors |-> << >>,
     html |-> NoPage, ended |-> FALSE]

NoReturn == [kind |-> "pending", status |-> 0, thrown |-> "", workflowData |-> << >>]

\* No page is loaded.
NoDocument ==
    [loaded |-> FALSE, hrefWaiting |-> FALSE, useResponseData |-> FALSE,
     hasContent |-> FALSE, hasRedirect |-> FALSE, replaced |-> FALSE, navigated |-> FALSE,
     n8nForm |-> "block", submittedForm |-> "none", header |-> "Form Submitted",
     content |-> "configured"]

NoFetches == [runs |-> 0, submits |-> 0, clicks |-> 0]

\* What is kept of a checkExecutionStatus run: the status it read, interval
\* before and after, the timers it set, whether the card shows, and the
\* timers pending when it returned, and whether it threw a TypeError.
NoRun ==
    [status |-> "", before |-> 0, after |-> 0, scheduled |-> 0, carded |-> FALSE,
     pending |-> 0, threw |-> FALSE]

\* What is kept of the last answered POST of submit: the status of the
\* response and what submit did with the page.
NoSubmit ==
    [status |-> 0, failureCard |-> FALSE, replaced |-> FALSE, navigated |-> FALSE,
     threw |-> FALSE]

NothingObserved ==
    [lastRun |-> NoRun, lastSubmit |-> NoSubmit, terminal |-> FALSE, ended |-> FALSE]

\* new Ajv({...}): nothing compiled, no schema held.
NewAjv == [compiled |-> 0, refs |-> {}]

NoJwtCall == [called |-> FALSE, algorithms |-> {}, key |-> NoKey]

(***************************************************************************)
(* The configurations and requests of the model                            *)
(*                                                                         *)
(* Each of the four concerns of a request (authentication, response mode,  *)
(* submission, record metadata) ranges over its full set while the others  *)
(* range over a base set that holds both a passing and a failing case.     *)
(***************************************************************************)

Headers(authorization, custom) == [authorization |-> authorization, custom |-> custom]

AuthSetting(authentication, store, headers) ==
    [authentication |-> authentication, credentials |-> store, headers |-> headers]

BasicSettings ==
    { AuthSetting("basicAuth", c, Headers(h, NoCustomHeader)) :
        c \in {NoCredential, BearerCredential(1)}
              \cup {BasicCredential(u, p) : u \in Str, p \in Str},
        h \in {NoAuthorization, SchemeOnly("Basic"), TokenHeader("Bearer", 1)}
              \cup {BasicHeader(sc, n, p) : sc \in {"Basic", "basic"}, n \in Str, p \in Str} }

BearerSettings ==
    { AuthSetting("bearerAuth", c, Headers(h, NoCustomHeader)) :
        c \in {NoCredential} \cup {BearerCredential(t) : t \in Str},
        h \in {NoAuthorization, SchemeOnly("Bearer"), BasicHeader("Basic", 1, 1)}
              \cup {TokenHeader(sc, t) : sc \in {"Bearer", "bearer"}, t \in NonEmptyStr} }

HeaderSettings ==
    { AuthSetting("headerAuth", c, Headers(NoAuthorization, h)) :
        c \in {NoCredential}
              \cup {HeaderCredential(HeaderName(i, up), v) :
                        i \in Str, up \in BOOLEAN, v \in Str},
        h \in {NoCustomHeader} \cup {CustomHeader(i, v) : i \in NonEmptyStr, v \in Str} }

JwtCredentials ==
    {NoCredential}
    \cup {JwtCredential("passphrase", k, NoKey, alg) :
              k \in {NoKey, Secret(1), Secret(2)}, alg \in Algorithms}
    \cup {JwtCredential("pemKey", NoKey, k, alg) :
              k \in {PemOneLine, PemLines, PemEscaped, OtherPemLines}, alg \in Algorithms}

JwtTokens ==
    {NoAuthorization, SchemeOnly("Bearer"), TokenHeader("Bearer", 1),
     JwtHeader("Basic", "HS256", Secret(1))}
    \cup {JwtHeader("Bearer", alg, k) :
              alg \in Algorithms \cup {"none"},
              k \in {NoKey, Secret(1), Secret(2), PemLines, OtherPemLines}}

JwtSettings ==
    { AuthSetting("jwtAuth", c, Headers(h, NoCustomHeader)) :
        c \in JwtCredentials, h \in JwtTokens }

OtherSettings ==
    { AuthSetting(a, c, Headers(h, NoCustomHeader)) :
        a \in {"none", "oAuth2"},
        c \in {NoCredential, BasicCredential(1, 1)},
        h \in {NoAuthorization, BasicHeader("Basic", 1, 1)} }

AuthSettings ==
    BasicSettings \cup BearerSettings \cup HeaderSettings \cup JwtSettings \cup OtherSettings

BaseAuthSettings ==
    { AuthSetting("none", NoCredential, Headers(NoAuthorization, NoCustomHeader)),
      AuthSetting("basicAuth", BasicCredential(1, 1),
                  Headers(BasicHeader("Basic", 1, 1), NoCustomHeader)),
      AuthSetting("basicAuth", BasicCredential(1, 1),
                  Headers(NoAuthorization, NoCustomHeader)) }

BotSetting(ignoreBots, userAgent) == [ignoreBots |-> ignoreBots, userAgent |-> userAgent]

BotSettings == { BotSetting(i, ua) : i \in BOOLEAN, ua \in {"Mozilla", "Googlebot"} }

BaseBotSettings == { BotSetting(FALSE, "Mozilla"), BotSetting(TRUE, "Googlebot") }

GraphSetting(responseMode, childNodes, typeVersion) ==
    [responseMode |-> responseMode, childNodes |-> childNodes, typeVersion |-> typeVersion]

GraphSettings ==
    { GraphSetting(m, n, v) : m \in ResponseModes, n \in SUBSET NodeKinds, v \in TypeVersions }

BaseGraphSettings ==
    { GraphSetting("onReceived", {}, 10), GraphSetting("responseNode", {}, 10) }

FormSetting(method, jsonSchema, eventJsonSchema, body) ==
    [method |-> method, jsonSchema |-> jsonSchema, eventJsonSchema |-> eventJsonSchema,
     body |-> body]

MainSchemas == {UnparsableSchema, AnySchema, DefaultSchema, DefaultingSchema, NameOnlySchema}

EventSchemas == {UnsetSchema, UnparsableSchema, DefaultingSchema, NameOnlySchema}

EventValues ==
    {UndefinedValue, StringValue, ObjectValue(<< >>), ObjectValue([email |-> "Jo"])}

Bodies ==
    {UnparsableBody, NullBody} \cup {ObjectBody(d, e) : d \in JsonValues, e \in EventValues}

FormSettings ==
    { FormSetting("POST", s, e, b) : s \in MainSchemas, e \in EventSchemas, b \in Bodies }
    \cup { FormSetting(m, s, UnsetSchema, ObjectBody(UndefinedValue, UndefinedValue)) :
              m \in {"GET", "PUT"}, s \in MainSchemas }

GoodBody == ObjectBody(ObjectValue([name |-> "Jo", email |-> "jo@x.com"]), UndefinedValue)
BadBody == ObjectBody(ObjectValue([name |-> "Jo", email |-> "Jo"]), UndefinedValue)

BaseFormSettings ==
    { FormSetting("GET", DefaultSchema, UnsetSchema, ObjectBody(UndefinedValue, UndefinedValue)),
      FormSetting("PUT", DefaultSchema, UnsetSchema, ObjectBody(UndefinedValue, UndefinedValue)),
      FormSetting("POST", DefaultSchema, UnsetSchema, GoodBody),
      FormSetting("POST", DefaultSchema, UnsetSchema, BadBody) }

\* useWorkflowTimezone is "undefined" when the option is not set.
MetaSetting(useWorkflowTimezone, timezone, mode, query) ==
    [useWorkflowTimezone |-> useWorkflowTimezone, timezone |-> timezone, mode |-> mode,
     query |-> query]

MetaSettings ==
    { MetaSetting(u, tz, m, q) :
        u \in {"undefined", "true", "false"}, tz \in {"Europe/Sofia", "UTC"},
        m \in {"manual", "webhook"}, q \in BOOLEAN }

BaseMetaSettings == { MetaSetting("undefined", "Europe/Sofia", "manual", FALSE) }

\* The parameters and options that only generateFormHtml reads.
\* readonly is "undefined" when the option is not set.
PageSetting(data, ui, cfg, respond, text, css, style, vuetify, validation, readonly) ==
    [data |-> data, uiSchema |-> ui, config |-> cfg, respondWithOptions |-> respond,
     formSubmittedText |-> text, customCss |-> css, customStyle |-> style,
     vuetifyOptions |-> vuetify, validationMode |-> validation, readonly |-> readonly]

PlainText == Text(<< "a" >>)
HostileText == Text(<< LessThan, Slash, "script>", Quote, Apostrophe, Backslash, LineFeed >>)

BasePageSettings ==
    { PageSetting(Text(<< "{}" >>), Text(<< "{", Quote, "type", Quote, "}" >>),
                  Text(<< "{", Quote, "restrict", Quote, "}" >>), NoRespondWith, NoText,
                  NoText, NoText, NoText, NoText, "undefined") }

\* Every string of up to MaxText characters in the data parameter.
ProbePageSettings ==
    { PageSetting(Text(d), PlainText, PlainText, NoRespondWith, NoText,
                  NoText, NoText, NoText, NoText, "undefined") : d \in Strings }

\* A plain or a hostile string in each slot of the custom element.
SlotPageSettings ==
    { PageSetting(d, u, c, NoRespondWith, NoText, css, st, vo, vm, ro) :
        d \in {PlainText, HostileText}, u \in {PlainText, HostileText},
        c \in {Text(<< >>), HostileText}, css \in {NoText, Text(<< >>), HostileText},
        st \in {NoText, HostileText}, vo \in {NoText, HostileText},
        vm \in {NoText, Text(<< "ValidateAndShow" >>)}, ro \in {"undefined", "true", "false"} }

\* The custom CSS of the page and of the custom element: unset, empty, markup
\* only, and markup with text.
CssPageSettings ==
    { PageSetting(PlainText, PlainText, PlainText, NoRespondWith, NoText, css, st, NoText,
                  NoText, "undefined") :
        css \in {NoText, Text(<< >>), Text(<< LessThan >>), HostileText},
        st \in {NoText, Text(<< >>), Text(<< LessThan >>), HostileText} }

\* The settings of the submitted card and of the redirect.
RespondPageSettings ==
    { PageSetting(PlainText, PlainText, PlainText, r, t, NoText, NoText, NoText, NoText,
                  "undefined") :
        r \in {NoRespondWith}
               \cup { RespondWith(w, ft, u) :
                          w \in {"text", "redirect"},
                          ft \in {NoText, Text(<< >>), HostileText},
                          u \in {NoText, Text(<< >>), HostileText} },
        t \in {NoText, Text(<< >>), PlainText} }

\* The graphs of the page slice: every set of downstream nodes under every
\* response mode.
PageGraphSettings ==
    { GraphSetting(m, n, 10) : m \in ResponseModes, n \in SUBSET NodeKinds }

OpenAuthSetting == AuthSetting("none", NoCredential, Headers(NoAuthorization, NoCustomHeader))

OnlyMetaSetting == MetaSetting("undefined", "Europe/Sofia", "manual", FALSE)

\* The requests of the page slice: a GET under each main schema.
PageFormSettings ==
    { FormSetting("GET", s, UnsetSchema, ObjectBody(UndefinedValue, UndefinedValue)) :
        s \in MainSchemas }

\* The state before the handler runs, for one choice of each concern.
Configured(a, b, g, f, m, p) ==
    /\ params = [authentication |-> a.authentication,
                 responseMode |-> g.responseMode,
                 jsonSchema |-> f.jsonSchema,
                 uiSchema |-> p.uiSchema,
                 data |-> p.data,
                 config |-> p.config,
                 options |-> [ignoreBots |-> b.ignoreBots,
                              eventJsonSchema |-> f.eventJsonSchema,
                              useWorkflowTimezone |-> m.useWorkflowTimezone,
                              respondWithOptions |-> p.respondWithOptions,
                              formSubmittedText |-> p.formSubmittedText,
                              customCss |-> p.customCss,
                              customStyle |-> p.customStyle,
                              vuetifyOptions |-> p.vuetifyOptions,
                              validationMode |-> p.validationMode,
                              readonly |-> p.readonly]]
    /\ credentials = a.credentials
    /\ workflow = [childNodes |-> g.childNodes,
                   typeVersion |-> g.typeVersion,
                   timezone |-> m.timezone,
                   mode |-> m.mode]
    /\ req = [method |-> f.method,
              userAgent |-> b.userAgent,
              headers |-> a.headers,
              body |-> f.body,
              query |-> m.query]
    /\ pc = "start"
    /\ expectedAuth = Undefined
    /\ error = 0
    /\ jwtCall = NoJwtCall
    /\ res = NoResponse
    /\ ret = NoReturn
    /\ log = << >>
    /\ ajv = NewAjv
    /\ pages = << >>
    /\ requests = 1
    /\ parked = << >>
    /\ document = NoDocument
    /\ interval = 0
    /\ timeoutId = 0
    /\ formWaitingUrl = FALSE
    /\ timers = {}
    /\ timerCount = 0
    /\ fetches = NoFetches
    /\ execution = "running"
    /\ observed = NothingObserved

Init ==
    \/ \E a \in AuthSettings, b \in BotSettings, g \in BaseGraphSettings,
          f \in BaseFormSettings, m \in BaseMetaSettings, p \in BasePageSettings :
              Configured(a, b, g, f, m, p)
    \/ \E a \in BaseAuthSettings, b \in BaseBotSettings, g \in GraphSettings,
          f \in BaseFormSettings, m \in BaseMetaSettings, p \in BasePageSettings :
              Configured(a, b, g, f, m, p)
    \/ \E a \in BaseAuthSettings, b \in BaseBotSettings, g \in BaseGraphSettings,
          f \in FormSettings, m \in BaseMetaSettings, p \in BasePageSettings :
              Configured(a, b, g, f, m, p)
    \/ \E a \in BaseAuthSettings, b \in BaseBotSettings, g \in BaseGraphSettings,
          f \in BaseFormSettings, m \in MetaSettings, p \in BasePageSettings :
              Configured(a, b, g, f, m, p)
    \/ \E f \in PageFormSettings, p \in ProbePageSettings \cup SlotPageSettings \cup CssPageSettings :
          Configured(OpenAuthSetting, BotSetting(FALSE, "Mozilla"),
                     GraphSetting("onReceived", {}, 10), f, OnlyMetaSetting, p)
    \/ \E g \in PageGraphSettings, p \in RespondPageSettings :
          Configured(OpenAuthSetting, BotSetting(FALSE, "Mozilla"), g,
                     FormSetting("GET", DefaultSchema, UnsetSchema,
                                 ObjectBody(UndefinedValue, UndefinedValue)),
                     OnlyMetaSetting, p)

(***************************************************************************)
(* webhook                                                                 *)
(***************************************************************************)

\* The bot filter, the first statement of the try block: isbot is called
\* only when options.ignoreBots is set.
BotFilter ==
    /\ pc = "start"
    /\ IF params.options.ignoreBots
       THEN /\ log' = Append(log, "isbot")
            /\ IF isbot(req.userAgent)
               THEN error' = 403 /\ pc' = "catch"
               ELSE error' = error /\ pc' = "authenticate"
       ELSE /\ log' = log
            /\ error' = error
            /\ pc' = "authenticate"
    /\ UNCHANGED << config, process, browser, expectedAuth, jwtCall, res, ret >>

\* validateWebhookAuthentication up to its await: "none" returns at once, a
\* recognized mode looks its credential up, any other value falls through
\* every branch and returns.
Authenticate ==
    /\ pc = "authenticate"
    /\ IF CredentialType(params.authentication) = ""
       THEN /\ pc' = "responseMode"
            /\ log' = Append(log, "validateWebhookAuthentication")
            /\ UNCHANGED expectedAuth
       ELSE /\ expectedAuth' = getCredentials(credentials, CredentialType(params.authentication))
            /\ log' = log \o << "validateWebhookAuthentication", "getCredentials" >>
            /\ pc' = "credentials"
    /\ UNCHANGED << config, process, browser, error, jwtCall, res, ret >>

\* validateWebhookAuthentication after the lookup.
CheckCredentials ==
    /\ pc = "credentials"
    /\ LET code == AuthCode(params.authentication, expectedAuth, req.headers)
           verifies == /\ params.authentication = "jwtAuth"
                       /\ expectedAuth.type # "undefined"
                       /\ HasToken(req.headers.authorization)
       IN  /\ IF verifies
              THEN /\ jwtCall' = [called |-> TRUE,
                                  algorithms |-> JwtAlgorithms(expectedAuth, req.headers.authorization),
                                  key |-> JwtKey(expectedAuth)]
                   /\ log' = Append(log, "jwt.verify")
              ELSE UNCHANGED << jwtCall, log >>
           /\ IF code = 0
              THEN error' = error /\ pc' = "responseMode"
              ELSE error' = code /\ pc' = "catch"
    /\ UNCHANGED << config, process, browser, expectedAuth, res, ret >>

\* The catch block written without the challenge header, which C6 rules out.
SendChallengeNoHeader ==
    /\ pc = "catch"
    /\ res' = [res EXCEPT !.statusCode = 401, !.ended = TRUE]
    /\ ret' = [ret EXCEPT !.kind = "noWebhookResponse"]
    /\ pc' = "done"
    /\ UNCHANGED << config, process, browser, expectedAuth, error, jwtCall, log >>

\* The catch block without its return statement: the 401 is sent and the
\* handler goes on to the response-mode validation.
CatchWithoutReturn ==
    /\ pc = "catch"
    /\ res' = [res EXCEPT !.headers = @ \cup {"WWW-Authenticate"},
                          !.statusCode = 401,
                          !.ended = TRUE]
    /\ pc' = "responseMode"
    /\ UNCHANGED << config, process, browser, expectedAuth, error, jwtCall, ret, log >>

\* The catch block of webhook for a WebhookAuthorizationError: whatever
\* responseCode the error carries, the status sent is 401.
CatchAuthorizationError ==
    /\ pc = "catch"
    /\ res' = [res EXCEPT !.headers = @ \cup {"WWW-Authenticate"},
                          !.statusCode = 401,
                          !.ended = TRUE]
    /\ ret' = [ret EXCEPT !.kind = "noWebhookResponse"]
    /\ pc' = "done"
    /\ UNCHANGED << config, process, browser, expectedAuth, error, jwtCall, log >>

\* validateResponseModeConfiguration(context): a NodeOperationError leaves
\* webhook, the response untouched.
ValidateResponseMode ==
    /\ pc = "responseMode"
    /\ log' = Append(log, "validateResponseModeConfiguration")
    /\ LET thrown == validateResponseModeConfiguration(params.responseMode,
                                                       workflow.childNodes,
                                                       workflow.typeVersion)
       IN  IF thrown # ""
           THEN /\ ret' = [ret EXCEPT !.kind = "throw", !.thrown = "NodeOperationError"]
                /\ pc' = "done"
           ELSE /\ ret' = ret
                /\ pc' = "dispatch"
    /\ UNCHANGED << config, process, browser, expectedAuth, error, jwtCall, res >>

\* req.method === "GET": the page of generateFormHtml, status 200.
ServeForm ==
    /\ pc = "dispatch"
    /\ req.method = "GET"
    /\ log' = Append(log, "generateFormHtml")
    /\ LET html == generateFormHtml(params, workflow.childNodes)
       IN  /\ res' = [res EXCEPT !.statusCode = 200, !.body = "html", !.html = html,
                                 !.ended = TRUE]
           /\ pages' = Append(pages, html)
    /\ ret' = [ret EXCEPT !.kind = "noWebhookResponse"]
    /\ pc' = "done"
    /\ UNCHANGED << config, browser, expectedAuth, error, jwtCall, ajv, requests, parked >>

\* The last statement of webhook taken for an unknown method that is let
\* through as if it were a submission acknowledged without a record.
MethodNotAllowedAcknowledged ==
    /\ pc = "dispatch"
    /\ req.method \notin {"GET", "POST"}
    /\ res' = res
    /\ ret' = [ret EXCEPT !.kind = "webhookResponse", !.status = 200]
    /\ pc' = "done"
    /\ UNCHANGED << config, process, browser, expectedAuth, error, jwtCall, log >>

\* Neither GET nor POST.
MethodNotAllowed ==
    /\ pc = "dispatch"
    /\ req.method \notin {"GET", "POST"}
    /\ res' = [res EXCEPT !.statusCode = 405, !.body = "text",
                          !.message = "Method not allowed", !.ended = TRUE]
    /\ ret' = [ret EXCEPT !.kind = "noWebhookResponse"]
    /\ pc' = "done"
    /\ UNCHANGED << config, process, browser, expectedAuth, error, jwtCall, log >>

\* The record handed to the workflow.
ResponseRecord(data, event, timezone, mode, query) ==
    [data |-> data, event |-> event, submittedAt |-> [zone |-> timezone],
     formMode |-> mode, formQueryParameters |-> query]

Throw(name) == [ret EXCEPT !.kind = "throw", !.thrown = name]

ValidationFailed(message, errors) ==
    [res EXCEPT !.statusCode = 400, !.headers = @ \cup {"Content-Type"}, !.body = "json",
                !.message = message, !.errors = errors, !.ended = TRUE]

\* The time zone of submittedAt with an absent option read as false, the
\* default its property declaration carries.
SubmissionTimezoneDefaultFalse(options, timezone) ==
    IF options.useWorkflowTimezone = "true" THEN timezone ELSE "UTC"

\* The time zone of submittedAt.
SubmissionTimezone(options, timezone) ==
    LET useWorkflowTimezone ==
            IF options.useWorkflowTimezone = "undefined" THEN "true"
            ELSE options.useWorkflowTimezone
    IN  IF useWorkflowTimezone = "true" THEN timezone ELSE "UTC"

\* formMode taken from the query string of the request instead of getMode().
FormModeFromRequest(mode) == IF req.query THEN "test" ELSE "production"

\* getMode() === "manual" ? "test" : "production"
FormMode(mode) == IF mode = "manual" THEN "test" ELSE "production"

\* The calls of the POST branch, in order: it stops at the first that
\* throws or answers.
SubmitCalls(body, schema, eventSchema, dataErrors) ==
    << "JSON.parse(body)" >>
    \o (IF body.parse = "throws" THEN << >>
        ELSE << "JSON.parse(schema)" >>
             \o (IF schema.text = "unparsable" THEN << >>
                 ELSE << "ajv.compile" >>
                      \o (IF body.parse = "null" THEN << >>
                          ELSE << "validateData" >>
                               \o (IF dataErrors # << >> \/ eventSchema.text = "unset"
                                   THEN << >>
                                   ELSE << "JSON.parse(eventJsonSchema)" >>
                                        \o (IF eventSchema.text = "unparsable" THEN << >>
                                            ELSE << "ajv.compile", "validateEvent" >>)))))

\* The Ajv option addUsedSchema at its default.
addUsedSchemaDefault == TRUE

\* addUsedSchema: false
addUsedSchema == FALSE

\* The $id of a schema, "" when it has none.
SchemaId(schema) == IF schema = IdentifiedSchema THEN "urn:form" ELSE ""

\* ajv.compile(schema) on a schema object the instance has not seen (each
\* JSON.parse gives a new one): the instance counts it, and with
\* addUsedSchema keeps its $id and refuses an $id it already holds.
compile(instance, schema) ==
    LET id == SchemaId(schema)
        registers == addUsedSchema /\ id # ""
    IN  IF registers /\ id \in instance.refs
        THEN [threw |-> TRUE, instance |-> instance]
        ELSE [threw |-> FALSE,
              instance |-> [compiled |-> instance.compiled + 1,
                            refs |-> IF registers THEN instance.refs \cup {id}
                                     ELSE instance.refs]]

\* How many schemas the calls hand to the Ajv instance, which keeps each.
Compiled(calls) == Cardinality({i \in 1..Len(calls) : calls[i] = "ajv.compile"})

SubmitIgnoringDataErrors ==
    /\ pc = "dispatch"
    /\ req.method = "POST"
    /\ req.body.parse = "object"
    /\ params.jsonSchema.text = "json"
    /\ params.options.eventJsonSchema.text = "unset"
    /\ res' = res
    /\ ret' = [ret EXCEPT
                 !.kind = "webhookResponse",
                 !.status = 200,
                 !.workflowData =
                     << ResponseRecord(validate(params.jsonSchema, req.body.data).data,
                                       req.body.event,
                                       SubmissionTimezone(params.options, workflow.timezone),
                                       FormMode(workflow.mode), req.query) >>]
    /\ pc' = "done"
    /\ ajv' = [ajv EXCEPT !.compiled = @ + 1]
    /\ UNCHANGED << config, browser, expectedAuth, error, jwtCall, log, pages, requests,
                    parked >>

\* The POST branch without the block that validates request.event.
SubmitEventUnchecked ==
    /\ pc = "dispatch"
    /\ req.method = "POST"
    /\ LET request == req.body
           schema == params.jsonSchema
           validateData == validate(schema, request.data)
       IN  /\ log' = log \o SubmitCalls(request, schema, UnsetSchema, validateData.errors)
           /\ ajv' = [ajv EXCEPT !.compiled =
                         @ + Compiled(SubmitCalls(request, schema, UnsetSchema, validateData.errors))]
           /\ IF request.parse = "throws" \/ schema.text = "unparsable"
              THEN res' = res /\ ret' = Throw("SyntaxError")
              ELSE IF request.parse = "null"
              THEN res' = res /\ ret' = Throw("TypeError")
              ELSE IF validateData.errors # << >>
              THEN /\ res' = ValidationFailed("Data validation failed", validateData.errors)
                   /\ ret' = [ret EXCEPT !.kind = "noWebhookResponse"]
              ELSE /\ res' = res
                   /\ ret' = [ret EXCEPT
                                !.kind = "webhookResponse",
                                !.status = 200,
                                !.workflowData =
                                    << ResponseRecord(validateData.data, request.event,
                                          SubmissionTimezone(params.options, workflow.timezone),
                                          FormMode(workflow.mode), req.query) >>]
    /\ pc' = "done"
    /\ UNCHANGED << config, browser, expectedAuth, error, jwtCall, pages, requests, parked >>

\* req.method === "POST": parse the body, validate data, then event when
\* an event schema is configured, then return the record.
Submit ==
    /\ pc = "dispatch"
    /\ req.method = "POST"
    /\ LET request == req.body
           schema == params.jsonSchema
           eventSchema == params.options.eventJsonSchema
           validateData == validate(schema, request.data)
           validateEvent == validate(eventSchema, request.event)
           calls == SubmitCalls(request, schema, eventSchema, validateData.errors)
           compiledData == compile(ajv, schema)
           compiledEvent == compile(compiledData.instance, eventSchema)
           dataRefused == Compiled(calls) >= 1 /\ compiledData.threw
           eventRefused == ~dataRefused /\ Compiled(calls) = 2 /\ compiledEvent.threw
       IN  /\ log' = log \o (IF dataRefused
                              THEN << "JSON.parse(body)", "JSON.parse(schema)", "ajv.compile" >>
                              ELSE IF eventRefused THEN SubSeq(calls, 1, Len(calls) - 1)
                              ELSE calls)
           /\ ajv' = IF dataRefused \/ Compiled(calls) = 0 THEN ajv
                     ELSE IF eventRefused \/ Compiled(calls) = 1 THEN compiledData.instance
                     ELSE compiledEvent.instance
           /\ IF request.parse = "throws" \/ schema.text = "unparsable"
              THEN res' = res /\ ret' = Throw("SyntaxError")
              ELSE IF dataRefused
              THEN res' = res /\ ret' = Throw("Error")
              ELSE IF request.parse = "null"
              THEN res' = res /\ ret' = Throw("TypeError")
              ELSE IF validateData.errors # << >>
              THEN /\ res' = ValidationFailed("Data validation failed", validateData.errors)
                   /\ ret' = [ret EXCEPT !.kind = "noWebhookResponse"]
              ELSE IF eventSchema.text = "unset"
              THEN /\ res' = res
                   /\ ret' = [ret EXCEPT
                                !.kind = "webhookResponse",
                                !.status = 200,
                                !.workflowData =
                                    << ResponseRecord(validateData.data, request.event,
                                          SubmissionTimezone(params.options, workflow.timezone),
                                          FormMode(workflow.mode), req.query) >>]
              ELSE IF eventSchema.text = "unparsable"
              THEN res' = res /\ ret' = Throw("SyntaxError")
              ELSE IF eventRefused
              THEN res' = res /\ ret' = Throw("Error")
              ELSE IF validateEvent.errors # << >>
              THEN /\ res' = ValidationFailed("Event validation failed", validateEvent.errors)
                   /\ ret' = [ret EXCEPT !.kind = "noWebhookResponse"]
              ELSE /\ res' = res
                   /\ ret' = [ret EXCEPT
                                !.kind = "webhookResponse",
                                !.status = 200,
                                !.workflowData =
                                    << ResponseRecord(validateData.data, validateEvent.data,
                                          SubmissionTimezone(params.options, workflow.timezone),
                                          FormMode(workflow.mode), req.query) >>]
    /\ pc' = "done"
    /\ UNCHANGED << config, browser, expectedAuth, error, jwtCall, pages, requests, parked >>

Next ==
    \/ BotFilter
    \/ Authenticate
    \/ CheckCredentials
    \/ CatchAuthorizationError
    \/ ValidateResponseMode
    \/ ServeForm
    \/ Submit
    \/ MethodNotAllowed

Spec == Init /\ [][Next]_vars

(***************************************************************************)
(* One process, several requests                                           *)
(*                                                                         *)
(* The host calls webhook once for each request; the node's parameters,    *)
(* the credential, the graph and the module's Ajv instance stay.           *)
(***************************************************************************)

MaxRequests == 3

\* The requests that follow the first.
RepeatRequests ==
    { [method |-> f.method, userAgent |-> b.userAgent, headers |-> a.headers,
       body |-> f.body, query |-> FALSE] :
        f \in BaseFormSettings, a \in BaseAuthSettings, b \in BaseBotSettings }

InitRepeat ==
    \E a \in BaseAuthSettings, b \in BaseBotSettings, g \in BaseGraphSettings,
       f \in BaseFormSettings, p \in BasePageSettings :
           Configured(a, b, g, f, OnlyMetaSetting, p)

\* The handler is entered again, with its locals fresh.
NewRequest ==
    /\ pc = "done"
    /\ requests < MaxRequests
    /\ req' \in RepeatRequests
    /\ requests' = requests + 1
    /\ pc' = "start"
    /\ expectedAuth' = Undefined
    /\ error' = 0
    /\ jwtCall' = NoJwtCall
    /\ res' = NoResponse
    /\ ret' = NoReturn
    /\ log' = << >>
    /\ UNCHANGED << params, credentials, workflow, ajv, pages, parked, browser >>

NextRepeat ==
    \/ BotFilter
    \/ Authenticate
    \/ CheckCredentials
    \/ CatchAuthorizationError
    \/ ValidateResponseMode
    \/ ServeForm
    \/ Submit
    \/ MethodNotAllowed
    \/ NewRequest

SpecRepeat == InitRepeat /\ [][NextRepeat]_vars

(***************************************************************************)
(* Two invocations in one process                                          *)
(*                                                                         *)
(* A second request arrives while the first is being served.  webhook      *)
(* gives the thread away only at its awaits: before it runs, at            *)
(* `await validateWebhookAuthentication(...)`, at `await getCredentials`    *)
(* inside it, and when it has returned.  The node parameters, the          *)
(* credentials and the Ajv instance are the same for both.                 *)
(***************************************************************************)

\* The locals of the invocation that runs.
Invocation ==
    [req |-> req, pc |-> pc, expectedAuth |-> expectedAuth, error |-> error,
     jwtCall |-> jwtCall, res |-> res, ret |-> ret, log |-> log]

\* An invocation that has not run yet.
FreshInvocation(request) ==
    [req |-> request, pc |-> "start", expectedAuth |-> Undefined, error |-> 0,
     jwtCall |-> NoJwtCall, res |-> NoResponse, ret |-> NoReturn, log |-> << >>]

\* Where an invocation can be while another runs.
AwaitPoints == {"start", "credentials", "responseMode", "catch", "done"}

PairBodies ==
    { GoodBody, BadBody, ObjectBody(ObjectValue([email |-> "jo@x.com"]), ObjectValue(<< >>)) }

PairFormSettings ==
    { FormSetting("POST", s, e, b) :
        s \in {DefaultSchema, IdentifiedSchema}, e \in {UnsetSchema, IdentifiedSchema},
        b \in PairBodies }
    \cup { FormSetting(m, s, UnsetSchema, ObjectBody(UndefinedValue, UndefinedValue)) :
              m \in {"GET", "PUT"}, s \in {DefaultSchema, IdentifiedSchema} }

\* The requests the second invocation can serve.
PairRequests ==
    { [method |-> f.method, userAgent |-> "Mozilla", headers |-> a.headers,
       body |-> f.body, query |-> FALSE] :
        f \in PairFormSettings, a \in BaseAuthSettings }

InitPair ==
    \E a \in BaseAuthSettings, f \in PairFormSettings, p \in BasePageSettings :
        Configured(a, BotSetting(FALSE, "Mozilla"), GraphSetting("onReceived", {}, 10), f,
                   OnlyMetaSetting, p)

\* The second request arrives: its invocation waits for the thread.
SecondArrives ==
    /\ requests = 1
    /\ parked = << >>
    /\ pc \in AwaitPoints
    /\ \E request \in PairRequests : parked' = << FreshInvocation(request) >>
    /\ requests' = requests + 1
    /\ UNCHANGED << config, browser, pc, expectedAuth, error, jwtCall, res, ret, log, ajv,
                    pages >>

\* The invocation that runs reaches an await, or returns, and the one that
\* waited goes on.
Switch ==
    /\ parked # << >>
    /\ pc \in AwaitPoints
    /\ parked' = << Invocation >>
    /\ req' = parked[1].req
    /\ pc' = parked[1].pc
    /\ expectedAuth' = parked[1].expectedAuth
    /\ error' = parked[1].error
    /\ jwtCall' = parked[1].jwtCall
    /\ res' = parked[1].res
    /\ ret' = parked[1].ret
    /\ log' = parked[1].log
    /\ UNCHANGED << params, credentials, workflow, ajv, pages, requests, browser >>

NextPair ==
    \/ BotFilter
    \/ Authenticate
    \/ CheckCredentials
    \/ CatchAuthorizationError
    \/ ValidateResponseMode
    \/ ServeForm
    \/ Submit
    \/ MethodNotAllowed
    \/ SecondArrives
    \/ Switch

SpecPair == InitPair /\ [][NextPair]_vars

(***************************************************************************)
(* The page in the browser: the inline script                              *)
(*                                                                         *)
(* One served page is loaded; its script runs as callbacks, each from one  *)
(* await to the next.  The answers of the server to the page's POST and of *)
(* the execution-status endpoint are the environment's.                    *)
(***************************************************************************)

MaxTimers == 4
MaxSubmits == 2

TerminalStatuses == {"success", "null", "canceled", "crashed", "error"}
RunningStatuses == {"running", "waiting"}
Statuses == TerminalStatuses \cup RunningStatuses \cup {"form-waiting"}

\* The script's variables and the document, as one value.
ScriptState ==
    [document |-> document, interval |-> interval, timeoutId |-> timeoutId,
     formWaitingUrl |-> formWaitingUrl, timers |-> timers, timerCount |-> timerCount]

\* clearTimeout(timeoutId)
clearTimeout(s) == [s EXCEPT !.timers = @ \ {s.timeoutId}]

\* timeoutId = setTimeout(checkExecutionStatus, interval)
setTimeout(s) ==
    [s EXCEPT !.timerCount = @ + 1,
              !.timers = @ \cup {s.timerCount + 1},
              !.timeoutId = s.timerCount + 1]

\* interval + 100 in place of Math.round(interval * 1.1)
RoundedBackoffLinear(ms) == ms + 100

\* Math.round(interval * 1.1)
RoundedBackoff(ms) == (ms * 11 + 5) \div 10

\* window.location.replace(...)
Navigate(s) == [s EXCEPT !.document.navigated = TRUE]

\* The statements that hide the form and show the #submitted-form card,
\* then write header and content when given ("" leaves the text alone).
\* threw tells that a write found its element missing: #submitted-form and
\* #submitted-header after the body was replaced, #submitted-content when
\* the page was generated without it.
ShowCard(s, header, content) ==
    LET hidden == [s EXCEPT !.document.n8nForm = "none"]
        shown == [hidden EXCEPT !.document.submittedForm = "block"]
        headed == IF header = "" THEN shown ELSE [shown EXCEPT !.document.header = header]
    IN  IF s.document.replaced THEN [state |-> hidden, threw |-> TRUE]
        ELSE IF content = "" THEN [state |-> headed, threw |-> FALSE]
        ELSE IF ~s.document.hasContent THEN [state |-> headed, threw |-> TRUE]
        ELSE [state |-> [headed EXCEPT !.document.content = content], threw |-> FALSE]

\* checkExecutionStatus from the answer of its fetch on.
AfterStatus(s, text) ==
    IF text = "form-waiting" THEN Navigate(s)
    ELSE IF text \in TerminalStatuses
    THEN LET card == IF text = "success" THEN ShowCard(s, "", "")
                     ELSE IF text = "null"
                     THEN ShowCard(s, "Could not get execution status", "settings")
                     ELSE ShowCard(s, "Problem submitting response", "try again")
         IN  IF card.threw THEN card.state ELSE clearTimeout(card.state)
    ELSE setTimeout([s EXCEPT !.interval = RoundedBackoff(s.interval)])

\* submit after the answer of its POST, from `if (response.status === 200)`.
AfterSubmitStatus(s, response) ==
    IF response.status = 200
    THEN IF response.redirected \/ s.document.hasRedirect THEN Navigate(s)
         ELSE ShowCard(s, "", "").state
    ELSE ShowCard(s, "Problem submitting response", "try again").state

\* submit after the answer of its POST, up to the finally block.
AfterSubmit(s, response) ==
    IF s.document.replaced THEN s
    ELSE IF ~s.document.useResponseData THEN AfterSubmitStatus(s, response)
    ELSE IF response.text = "formWaitingUrl"
    THEN setTimeout(clearTimeout([s EXCEPT !.formWaitingUrl = TRUE]))
    ELSE IF response.text = "redirectURL" THEN Navigate(s)
    ELSE IF response.text = "formSubmittedText" THEN ShowCard(s, "", "response").state
    ELSE IF response.text = "other" THEN [s EXCEPT !.document.replaced = TRUE]
    ELSE AfterSubmitStatus([clearTimeout(s) EXCEPT !.interval = 0], response)

\* Whether that run of checkExecutionStatus throws a TypeError at a write
\* to an element the document does not have (its catch block logs it).
RunThrows(s, text) ==
    /\ text \in TerminalStatuses
    /\ IF text = "success" THEN ShowCard(s, "", "").threw
       ELSE ShowCard(s, "Problem submitting response", "try again").threw

\* Whether submit throws a TypeError at a read or a write of an element the
\* document does not have (nothing catches it: the promise is rejected).
SubmitThrows(s, response) ==
    LET status == IF response.status = 200
                  THEN /\ ~(response.redirected \/ s.document.hasRedirect)
                       /\ ShowCard(s, "", "").threw
                  ELSE ShowCard(s, "Problem submitting response", "try again").threw
    IN  IF s.document.replaced THEN TRUE
        ELSE IF ~s.document.useResponseData THEN status
        ELSE IF response.text \in {"formWaitingUrl", "redirectURL", "other"} THEN FALSE
        ELSE IF response.text = "formSubmittedText" THEN ShowCard(s, "", "response").threw
        ELSE status

\* The finally block of submit.
Finally(s) ==
    IF s.document.hrefWaiting THEN setTimeout(clearTimeout(s)) ELSE s

\* The script's variables and the document take the values of s.
Becomes(s) ==
    /\ document' = s.document
    /\ interval' = s.interval
    /\ timeoutId' = s.timeoutId
    /\ formWaitingUrl' = s.formWaitingUrl
    /\ timers' = s.timers
    /\ timerCount' = s.timerCount

server == << config, process, pc, expectedAuth, error, jwtCall, res, ret, log >>

\* The answers the page's POST can get.
SubmitResponses ==
    { [status |-> st, text |-> t, redirected |-> r] :
        st \in {200, 400}, t \in {"", "formWaitingUrl", "redirectURL", "formSubmittedText", "other"},
        r \in BOOLEAN }

\* The browser loads the page that the GET was answered with, at an address
\* that holds 'form-waiting' or does not (the path is the user's choice).
LoadPage ==
    /\ ~document.loaded /\ ~document.navigated
    /\ res.statusCode = 200 /\ res.body = "html"
    /\ \E waiting \in BOOLEAN :
          document' = [NoDocument EXCEPT !.loaded = TRUE,
                                         !.hrefWaiting = waiting,
                                         !.useResponseData = res.html.useResponseData,
                                         !.hasContent = res.html.submittedContent.defined,
                                         !.hasRedirect = res.html.redirectUrl.defined]
    /\ interval' = 1000
    /\ UNCHANGED << server, timeoutId, formWaitingUrl, timers, timerCount, fetches,
                    execution, observed >>

\* submit is called with a form that has no errors: up to its await.
SubmitClick ==
    /\ document.loaded /\ ~document.navigated
    /\ fetches.submits = 0
    /\ fetches.clicks < MaxSubmits
    /\ fetches' = [fetches EXCEPT !.submits = 1, !.clicks = @ + 1]
    /\ UNCHANGED << server, document, interval, timeoutId, formWaitingUrl, timers,
                    timerCount, execution, observed >>

\* The POST is answered: the rest of submit.
SubmitResponds ==
    /\ document.loaded
    /\ fetches.submits > 0
    /\ \E response \in SubmitResponses :
          LET s == Finally(AfterSubmit(ScriptState, response))
          IN  /\ s.timerCount <= MaxTimers
              /\ Becomes(s)
              /\ observed' =
                    [observed EXCEPT
                       !.ended = @ \/ (s.interval = 0 /\ interval # 0 /\ ~s.document.hrefWaiting),
                       !.lastSubmit =
                           [status |-> response.status,
                            failureCard |->
                                /\ s.document.n8nForm = "none"
                                /\ s.document.submittedForm = "block"
                                /\ s.document.header = "Problem submitting response",
                            replaced |-> s.document.replaced /\ ~document.replaced,
                            navigated |-> s.document.navigated /\ ~document.navigated,
                            threw |-> SubmitThrows(ScriptState, response)]]
    /\ fetches' = [fetches EXCEPT !.submits = 0]
    /\ UNCHANGED << server, execution >>

\* The POST fails: the finally block alone.
SubmitFails ==
    /\ document.loaded
    /\ fetches.submits > 0
    /\ LET s == Finally(ScriptState)
       IN  s.timerCount <= MaxTimers /\ Becomes(s)
    /\ fetches' = [fetches EXCEPT !.submits = 0]
    /\ UNCHANGED << server, execution, observed >>

\* A timer fires: checkExecutionStatus up to its await, or its return when
\* interval is 0.
TimerFires ==
    /\ document.loaded
    /\ \E id \in timers : timers' = timers \ {id}
    /\ IF interval = 0
       THEN /\ fetches' = fetches
            /\ observed' = [observed EXCEPT !.ended = TRUE]
       ELSE /\ fetches' = [fetches EXCEPT !.runs = @ + 1]
            /\ observed' = observed
    /\ UNCHANGED << server, document, interval, timeoutId, formWaitingUrl, timerCount,
                    execution >>

\* The status fetch is answered: the rest of checkExecutionStatus.
RunResponds ==
    /\ document.loaded
    /\ fetches.runs > 0
    /\ LET s == AfterStatus(ScriptState, execution)
       IN  /\ s.timerCount <= MaxTimers
           /\ Becomes(s)
           /\ observed' =
                 [lastRun |-> [status |-> execution,
                               before |-> interval,
                               after |-> s.interval,
                               scheduled |-> s.timerCount - timerCount,
                               carded |-> s.document.submittedForm = "block",
                               pending |-> Cardinality(s.timers),
                               threw |-> RunThrows(ScriptState, execution)],
                  lastSubmit |-> observed.lastSubmit,
                  terminal |-> observed.terminal \/ execution \in TerminalStatuses,
                  ended |-> observed.ended \/ execution \notin RunningStatuses]
    /\ fetches' = [fetches EXCEPT !.runs = @ - 1]
    /\ UNCHANGED << server, execution >>

\* The status fetch fails: the catch block logs and returns.
RunFails ==
    /\ document.loaded
    /\ fetches.runs > 0
    /\ fetches' = [fetches EXCEPT !.runs = @ - 1]
    /\ observed' = [observed EXCEPT !.lastRun = [NoRun EXCEPT !.status = "fetch failed",
                                                              !.before = interval,
                                                              !.after = interval,
                                                              !.pending = Cardinality(timers)],
                                    !.ended = TRUE]
    /\ UNCHANGED << server, document, interval, timeoutId, formWaitingUrl, timers,
                    timerCount, execution >>

\* The execution goes on: a status that is not final gives way to another.
ExecutionMoves ==
    /\ document.loaded
    /\ execution \in RunningStatuses
    /\ execution' \in Statuses \ {execution}
    /\ UNCHANGED << server, document, interval, timeoutId, formWaitingUrl, timers,
                    timerCount, fetches, observed >>

\* The navigation commits: the page and all it had pending are gone.
Unload ==
    /\ document.loaded /\ document.navigated
    /\ document' = [document EXCEPT !.loaded = FALSE]
    /\ timers' = {}
    /\ fetches' = [fetches EXCEPT !.runs = 0, !.submits = 0]
    /\ observed' = [observed EXCEPT !.ended = TRUE]
    /\ UNCHANGED << server, interval, timeoutId, formWaitingUrl, timerCount, execution >>

\* The pages of the browser part: with and without #submitted-content, the
\* redirect anchor and useResponseData.
InitPage ==
    \E g \in { GraphSetting("onReceived", {}, 10),
               GraphSetting("responseNode", {Node(RESPOND_TO_WEBHOOK_NODE_TYPE, "")}, 10) },
       p \in { q \in RespondPageSettings :
                 /\ q.formSubmittedText = NoText
                 /\ q.respondWithOptions \in
                       { NoRespondWith,
                         RespondWith("text", Text(<< >>), NoText),
                         RespondWith("redirect", NoText, HostileText) } } :
        Configured(OpenAuthSetting, BotSetting(FALSE, "Mozilla"), g,
                   FormSetting("GET", DefaultSchema, UnsetSchema,
                               ObjectBody(UndefinedValue, UndefinedValue)),
                   OnlyMetaSetting, p)

NextPage ==
    \/ BotFilter
    \/ Authenticate
    \/ ValidateResponseMode
    \/ ServeForm
    \/ LoadPage
    \/ SubmitClick
    \/ SubmitResponds
    \/ SubmitFails
    \/ TimerFires
    \/ RunResponds
    \/ RunFails
    \/ ExecutionMoves
    \/ Unload

SpecPage == InitPage /\ [][NextPage]_vars

(***************************************************************************)
(* Vocabulary of the properties, stated on the configuration and the       *)
(* request alone                                                           *)
(***************************************************************************)

Done == pc = "done"

Logged(call) == \E i \in 1..Len(log) : log[i] = call

\* The request was stopped by the bot filter.
BotRejected == params.options.ignoreBots /\ isbot(req.userAgent)

\* validateWebhookAuthentication has looked the credential up and decided.
AuthDecided == Logged("getCredentials") /\ pc # "credentials"

\* The handler got past authentication and response-mode validation.
Dispatched == Done /\ error = 0 /\ ret.thrown # "NodeOperationError"

RespondNodeConnected ==
    \E n \in workflow.childNodes : n.type = "n8n-nodes-base.respondToWebhook"

\* A value with the schema's defaults filled in for its missing properties.
Completed(value, schema) ==
    IF schema.type = "object" /\ value.kind = "object"
    THEN [value EXCEPT !.props =
             [p \in DOMAIN value.props \cup DOMAIN schema.defaults |->
                 IF p \in DOMAIN value.props THEN value.props[p] ELSE schema.defaults[p]]]
    ELSE value

\* JSON Schema satisfaction, for the schemas of the model.
Satisfies(value, schema) ==
    \/ schema.type = "any"
    \/ /\ value.kind = "object"
       /\ schema.required \subseteq DOMAIN value.props
       /\ schema.additionalProperties \/ DOMAIN value.props \subseteq DOMAIN schema.properties
       /\ \A p \in DOMAIN value.props \cap DOMAIN schema.properties :
              schema.properties[p] = "email" => IsEmail(value.props[p])

\* A POST whose body is an object, under a main schema that parses.
WellFormedSubmission ==
    /\ req.method = "POST"
    /\ req.body.parse = "object"
    /\ params.jsonSchema.text = "json"

DataValid == Satisfies(Completed(req.body.data, params.jsonSchema), params.jsonSchema)

EventValid ==
    \/ params.options.eventJsonSchema.text = "unset"
    \/ /\ params.options.eventJsonSchema.text = "json"
       /\ Satisfies(Completed(req.body.event, params.options.eventJsonSchema),
                    params.options.eventJsonSchema)

Answered400 ==
    /\ res.statusCode = 400
    /\ res.body = "json"
    /\ res.message # ""
    /\ res.errors # << >>
    /\ ret.kind = "noWebhookResponse"
    /\ ret.workflowData = << >>

Forwarded(data) ==
    /\ ret.kind = "webhookResponse"
    /\ ret.status = 200
    /\ Len(ret.workflowData) = 1
    /\ ret.workflowData[1].data = data

(***************************************************************************)
(* C1                                                                      *)
(***************************************************************************)

ResponseModeValid ==
    /\ (params.responseMode = "responseNode") => RespondNodeConnected
    /\ RespondNodeConnected => (params.responseMode = "responseNode" /\ workflow.typeVersion <= 21)

\* C2: workflow data is emitted exactly on the POST success path (POST, bot
\* filter and authentication passed, response mode valid, data valid, event
\* valid when an event schema is configured); every other outcome returns
\* noWebhookResponse or throws, and nothing is emitted before the end.
C2_WorkflowDataOnlyOnSuccess ==
    /\ ~Done => (ret.workflowData = << >> /\ ret.kind = "pending")
    /\ Done =>
         /\ (ret.workflowData # << >>) <=>
               /\ WellFormedSubmission
               /\ error = 0
               /\ ResponseModeValid
               /\ DataValid
               /\ EventValid
         /\ (ret.workflowData = << >>) => ret.kind \in {"noWebhookResponse", "throw"}
         /\ (ret.workflowData # << >>) => ret.kind = "webhookResponse"

\* A submission went downstream after basic authentication and an event check.
C2_Witness ==
    /\ Done
    /\ ret.workflowData # << >>
    /\ params.options.eventJsonSchema.text = "json"
    /\ params.authentication = "basicAuth"

(***************************************************************************)
(* C3, C4, C5                                                              *)
(***************************************************************************)

\* C3: a WebhookAuthorizationError carrying code c in {401, 403, 500} is
\* answered with HTTP status c, noWebhookResponse and no workflow data.
C3_StatusIsErrorCode ==
    (Done /\ error # 0) =>
        /\ error \in {401, 403, 500}
        /\ res.statusCode = error
        /\ ret.kind = "noWebhookResponse"
        /\ ret.workflowData = << >>

\* The stored credential the mode needs is missing or has an empty
\* required field.
CredentialUnavailable ==
    \/ /\ params.authentication = "basicAuth"
       /\ (credentials.type # "httpBasicAuth" \/ credentials.user = 0 \/ credentials.password = 0)
    \/ /\ params.authentication = "bearerAuth"
       /\ (credentials.type # "httpBearerAuth" \/ credentials.token = 0)
    \/ /\ params.authentication = "headerAuth"
       /\ (credentials.type # "httpHeaderAuth" \/ credentials.name.id = 0 \/ credentials.value = 0)
    \/ /\ params.authentication = "jwtAuth"
       /\ credentials.type # "jwtAuth"

\* C4: in a mode other than none, when the stored credential is missing or
\* a field it needs is empty, the request is answered 500 whatever it
\* contains.
C4_MissingCredentialIs500 ==
    LET emptyJwtKey == /\ params.authentication = "jwtAuth"
                       /\ credentials.type = "jwtAuth"
                       /\ credentials.keyType = "passphrase"
                       /\ credentials.secret = NoKey
    IN  (Done /\ (CredentialUnavailable \/ emptyJwtKey)) => res.statusCode = 500

\* C5: with ignoreBots set, a bot's request is answered 403 before any
\* credential lookup, for every method, without an HTML body.
C5_BotIs403BeforeAuth ==
    (Done /\ BotRejected) =>
        /\ res.statusCode = 403
        /\ ~Logged("getCredentials")
        /\ res.body # "html"

(***************************************************************************)
(* C6                                                                      *)
(***************************************************************************)

\* C6: every response sent with status 401 carries the WWW-Authenticate
\* challenge header.
C6_ChallengeOn401 ==
    res.statusCode = 401 => "WWW-Authenticate" \in res.headers

\* A 401 was sent for a request without credentials.
C6_Witness ==
    /\ res.statusCode = 401
    /\ res.ended
    /\ error = 401

(***************************************************************************)
(* C7                                                                      *)
(***************************************************************************)

IsBasicHeader(authorization) ==
    authorization.scheme \in {"Basic", "basic"} /\ authorization.kind = "userpass"

\* C7: basicAuth decides 500 (no usable stored credential), else 401 (no
\* HTTP Basic header), else 403 (name or password differs), else accepts.
C7_BasicAuthOrder ==
    (params.authentication = "basicAuth" /\ AuthDecided) =>
        LET h == req.headers.authorization
        IN  error = IF CredentialUnavailable THEN 500
                    ELSE IF ~IsBasicHeader(h) THEN 401
                    ELSE IF h.a # credentials.user \/ h.b # credentials.password THEN 403
                    ELSE 0

\* basicAuth accepted a request.
C7_Witness ==
    /\ params.authentication = "basicAuth"
    /\ AuthDecided
    /\ error = 0
    /\ req.headers.authorization.a = credentials.user
    /\ credentials.user # 0

(***************************************************************************)
(* C8                                                                      *)
(***************************************************************************)

\* C8: with a stored credential, bearerAuth and headerAuth accept exactly the
\* request whose header equals the stored value (the header name compared
\* without regard to case) and answer every other request, a missing header
\* included, with 403.
C8_BearerAndHeader ==
    /\ (params.authentication = "bearerAuth" /\ AuthDecided /\ ~CredentialUnavailable) =>
           LET h == req.headers.authorization
               equal == h.scheme = "Bearer" /\ h.kind = "token" /\ h.a = credentials.token
           IN  error = IF equal THEN 0 ELSE 403
    /\ (params.authentication = "headerAuth" /\ AuthDecided /\ ~CredentialUnavailable) =>
           LET h == req.headers.custom
               equal == /\ h.present
                        /\ h.name.id = credentials.name.id
                        /\ h.value = credentials.value
           IN  error = IF equal THEN 0 ELSE 403

\* headerAuth accepted a header whose stored name is spelled with capitals.
C8_Witness ==
    /\ params.authentication = "headerAuth"
    /\ AuthDecided
    /\ error = 0
    /\ credentials.name.upper

(***************************************************************************)
(* C9                                                                      *)
(***************************************************************************)

\* The PEM layout of each stored public key of the model.
PemLayout(key) ==
    IF key \in {PemOneLine, PemEscaped} THEN PemLines ELSE key

ExpectedJwtKey ==
    IF credentials.keyType = "passphrase" THEN credentials.secret
    ELSE PemLayout(credentials.publicKey)

\* C9: jwtAuth with a stored credential answers 401 without a token and
\* 403 when verification fails; it verifies with the stored algorithm alone
\* and with the stored secret (passphrase) or the formatted public key.
C9_JwtAuth ==
    (params.authentication = "jwtAuth" /\ AuthDecided /\ ~CredentialUnavailable) =>
        LET h == req.headers.authorization
            hasToken == h.scheme # "absent" /\ h.kind # "none"
            verified == /\ h.kind = "jwt"
                        /\ h.alg = credentials.algorithm
                        /\ h.key = ExpectedJwtKey
                        /\ h.key # NoKey
        IN  IF ~hasToken
            THEN error = 401 /\ ~jwtCall.called
            ELSE /\ jwtCall.called
                 /\ jwtCall.algorithms = {credentials.algorithm}
                 /\ jwtCall.key = ExpectedJwtKey
                 /\ error = IF verified THEN 0 ELSE 403

\* A token was accepted under a public key stored on one line.
C9_Witness ==
    /\ params.authentication = "jwtAuth"
    /\ AuthDecided
    /\ error = 0
    /\ credentials.publicKey = PemOneLine
    /\ jwtCall.called

(***************************************************************************)
(* C10                                                                     *)
(***************************************************************************)

\* C10: with responseMode responseNode and no Respond to Webhook node
\* downstream, every authenticated request ends in a NodeOperationError,
\* with the response untouched and no workflow data.
C10_MissingRespondNodeThrows ==
    (Done /\ error = 0 /\ params.responseMode = "responseNode" /\ ~RespondNodeConnected) =>
        /\ ret.kind = "throw"
        /\ ret.thrown = "NodeOperationError"
        /\ res = NoResponse
        /\ ret.workflowData = << >>

\* An authenticated POST ended in the configuration error.
C10_Witness ==
    /\ Done
    /\ params.responseMode = "responseNode"
    /\ ~RespondNodeConnected
    /\ params.authentication = "basicAuth"
    /\ error = 0
    /\ req.method = "POST"
    /\ ret.thrown = "NodeOperationError"

(***************************************************************************)
(* C11                                                                     *)
(***************************************************************************)

\* validateResponseModeConfiguration has run.
ResponseModeDecided == Logged("validateResponseModeConfiguration") /\ pc # "responseMode"

\* C11: with a Respond to Webhook node connected,
\* validateResponseModeConfiguration passes only when typeVersion <= 2.1 and
\* responseMode is responseNode; it throws when typeVersion <= 2.1 and
\* responseMode is anything else, and for every responseMode when
\* typeVersion > 2.1.
C11_RespondNodeConnected ==
    (ResponseModeDecided /\ RespondNodeConnected) =>
        /\ (ret.thrown # "NodeOperationError") <=>
               (workflow.typeVersion <= 21 /\ params.responseMode = "responseNode")
        /\ (ret.thrown = "NodeOperationError") =>
               (ret.kind = "throw" /\ res = NoResponse /\ ret.workflowData = << >>)

\* A version above 2.1 was refused although responseMode is responseNode.
C11_Witness ==
    /\ ResponseModeDecided
    /\ RespondNodeConnected
    /\ workflow.typeVersion > 21
    /\ params.responseMode = "responseNode"
    /\ ret.thrown = "NodeOperationError"

\* The boundary version 2.1 passed with responseMode responseNode.
C11_WitnessPass ==
    /\ ResponseModeDecided
    /\ RespondNodeConnected
    /\ workflow.typeVersion = 21
    /\ params.responseMode = "responseNode"
    /\ ret.thrown = ""

(***************************************************************************)
(* C12                                                                     *)
(***************************************************************************)

\* The three ways C12 lets a POST end.
Acknowledged200 ==
    /\ ret.kind = "webhookResponse"
    /\ ret.status = 200
    /\ Len(ret.workflowData) = 1
    /\ ~res.ended

AuthResponse ==
    /\ error # 0
    /\ res.statusCode \in {401, 403, 500}
    /\ ret.kind = "noWebhookResponse"
    /\ ret.workflowData = << >>

\* C12: every POST, whatever its body and the configured schemas, ends in
\* exactly one of: the 200 acknowledgement with the forwarded record, a 400
\* with a JSON body {message, errors}, or an authentication response 401,
\* 403 or 500; it ends in no other way.
C12_PostOutcomes ==
    (Done /\ req.method = "POST") =>
        /\ Acknowledged200 \/ Answered400 \/ AuthResponse
        /\ ~(Acknowledged200 /\ Answered400)
        /\ ~(Acknowledged200 /\ AuthResponse)
        /\ ~(Answered400 /\ AuthResponse)
        /\ ret.kind # "throw"

\* What the handler does for a POST: it also ends by throwing, on a body or
\* a schema that JSON.parse refuses, on a body that parses to null, and on
\* a response mode that validateResponseModeConfiguration refuses.
C12_PostOutcomesOrThrow ==
    (Done /\ req.method = "POST") =>
        \/ Acknowledged200 /\ ret.kind # "throw"
        \/ Answered400 /\ ret.kind # "throw"
        \/ AuthResponse /\ res.statusCode = 401
        \/ /\ ret.kind = "throw" /\ res = NoResponse /\ ret.workflowData = << >>
           /\ \/ ret.thrown = "NodeOperationError" /\ ~ResponseModeValid
              \/ /\ ret.thrown = "SyntaxError"
                 /\ \/ req.body.parse = "throws"
                    \/ params.jsonSchema.text = "unparsable"
                    \/ params.options.eventJsonSchema.text = "unparsable"
              \/ ret.thrown = "TypeError" /\ req.body.parse = "null"

(***************************************************************************)
(* C13                                                                     *)
(***************************************************************************)

\* The position of the first call of that name in the log, 0 when absent.
FirstCall(call) ==
    IF Logged(call) THEN CHOOSE i \in 1..Len(log) : log[i] = call /\ \A j \in 1..(i - 1) : log[j] # call
    ELSE 0

EventSchemaConfigured == params.options.eventJsonSchema.text = "json"

\* C13: on a POST, request.data is validated first, against the main
\* schema; request.event is validated, against options.eventJsonSchema,
\* exactly when that option is configured and data passed; an event that
\* fails is answered 400 with message 'Event validation failed', a
\* non-empty error list and no workflow data; event validation is never
\* reached when data validation failed.
C13_DataThenEvent ==
    (Dispatched /\ WellFormedSubmission
        /\ params.options.eventJsonSchema.text \in {"unset", "json"}) =>
        /\ Logged("validateData")
        /\ Logged("validateEvent") => FirstCall("validateData") < FirstCall("validateEvent")
        /\ Logged("validateEvent") <=> (EventSchemaConfigured /\ DataValid)
        /\ ~DataValid =>
              (~Logged("validateEvent") /\ Answered400 /\ res.message = "Data validation failed")
        /\ (DataValid /\ ~EventValid) =>
              (Answered400 /\ res.message = "Event validation failed")

\* Valid data came with an event that fails the configured event schema.
C13_Witness ==
    /\ Dispatched /\ WellFormedSubmission
    /\ EventSchemaConfigured
    /\ DataValid /\ ~EventValid
    /\ res.message = "Event validation failed"
    /\ res.errors # << >>

(***************************************************************************)
(* C14                                                                     *)
(***************************************************************************)

\* The values the inline script gives the attribute of that name, one for
\* each statement that sets it.
AttributeValues(page, name) ==
    { JsStringValue(page.script[i].literal) :
        i \in {k \in 1..Len(page.script) : page.script[k].attr = name} }

\* C14: a GET that passes authentication and response-mode validation is
\* answered 200 with the page of generateFormHtml, whose script sets the
\* schema attribute of the custom element to the configured jsonSchema
\* string; webhook returns noWebhookResponse and emits no workflow data.
C14_FormServed ==
    (Dispatched /\ req.method = "GET") =>
        /\ res.statusCode = 200
        /\ res.body = "html"
        /\ res.html = generateFormHtml(params, workflow.childNodes)
        /\ AttributeValues(res.html, "schema") =
              { [ok |-> TRUE, value |-> SchemaSource(params.jsonSchema)] }
        /\ ret.kind = "noWebhookResponse"
        /\ ret.workflowData = << >>

\* The default schema, with its quotes, slashes and line feeds, was served
\* after basic authentication.
C14_Witness ==
    /\ Dispatched /\ req.method = "GET"
    /\ params.authentication = "basicAuth"
    /\ params.jsonSchema = DefaultSchema
    /\ res.statusCode = 200
    /\ Len(res.html.script) >= 4

(***************************************************************************)
(* C15                                                                     *)
(***************************************************************************)

Answered405 ==
    /\ res.statusCode = 405
    /\ ret.kind = "noWebhookResponse"
    /\ ret.workflowData = << >>

\* C15 as stated: every request whose method is neither GET nor POST is
\* answered with status 405, returns noWebhookResponse and emits no
\* workflow data.
C15_AsStated ==
    (Done /\ req.method \notin {"GET", "POST"}) => Answered405

\* C15 amended: a request whose method is neither GET nor POST is answered
\* 405 (noWebhookResponse, no workflow data) exactly when it passed the bot
\* filter, authentication and response-mode validation; one that failed
\* authentication is answered by the catch block, one that failed
\* response-mode validation ends in the NodeOperationError, and neither is
\* answered 405.
C15_OtherMethodAfterChecks ==
    (Done /\ req.method \notin {"GET", "POST"}) =>
        /\ Dispatched => (Answered405 /\ res.message = "Method not allowed")
        /\ error # 0 => (res.statusCode = 401 /\ ret.kind = "noWebhookResponse")
        /\ (error = 0 /\ ~ResponseModeValid) =>
               (ret.kind = "throw" /\ ret.thrown = "NodeOperationError" /\ res = NoResponse)
        /\ ret.workflowData = << >>

\* A PUT that passed basic authentication was answered 405.
C15_Witness ==
    /\ Done
    /\ req.method = "PUT"
    /\ params.authentication = "basicAuth"
    /\ AuthDecided
    /\ res.statusCode = 405

(***************************************************************************)
(* C16                                                                     *)
(***************************************************************************)

\* A record was handed to the workflow.
Emitted == Done /\ ret.workflowData # << >>

\* C16: every emitted record has submittedAt; its zone is the workflow's
\* time zone when options.useWorkflowTimezone is true or absent, and UTC
\* when the option is explicitly false.
C16_SubmittedAtZone ==
    Emitted =>
        /\ Len(ret.workflowData) = 1
        /\ "submittedAt" \in DOMAIN ret.workflowData[1]
        /\ ret.workflowData[1].submittedAt.zone =
              IF params.options.useWorkflowTimezone = "false" THEN "UTC"
              ELSE workflow.timezone

\* A record was stamped in the workflow's zone with the option left unset.
C16_Witness ==
    /\ Emitted
    /\ params.options.useWorkflowTimezone = "undefined"
    /\ workflow.timezone = "Europe/Sofia"
    /\ ret.workflowData[1].submittedAt.zone = "Europe/Sofia"

\* A record was stamped in UTC with the option set to false.
C16_WitnessUtc ==
    /\ Emitted
    /\ params.options.useWorkflowTimezone = "false"
    /\ workflow.timezone = "Europe/Sofia"
    /\ ret.workflowData[1].submittedAt.zone = "UTC"

(***************************************************************************)
(* C17                                                                     *)
(***************************************************************************)

\* C17: formMode is 'test' exactly when the execution mode is manual and
\* 'production' otherwise, whatever the client sent: it is a function of
\* the execution mode alone.
C17_FormModeFromExecutionMode ==
    Emitted =>
        /\ ret.workflowData[1].formMode \in {"test", "production"}
        /\ (ret.workflowData[1].formMode = "test") <=> (workflow.mode = "manual")

\* A production record was emitted for a POST that carries a query string.
C17_Witness ==
    /\ Emitted
    /\ workflow.mode = "webhook"
    /\ req.query
    /\ ret.workflowData[1].formMode = "production"

(***************************************************************************)
(* C18                                                                     *)
(***************************************************************************)

Stage(call) ==
    IF call \in {"isbot", "validateWebhookAuthentication", "getCredentials", "jwt.verify"} THEN 1
    ELSE IF call = "validateResponseModeConfiguration" THEN 2
    ELSE 3

StageReached(n) == \E i \in 1..Len(log) : Stage(log[i]) = n

\* C19: for every method the stages run in the order bot filter and
\* authentication, response-mode validation, method dispatch; after an
\* authentication failure none of response-mode validation, body parsing,
\* schema compilation and HTML generation runs; after a response-mode
\* failure none of body parsing, schema compilation and HTML generation
\* runs; a validation failure is decided with no workflow data built.
C19_StageOrder ==
    /\ \A i, j \in 1..Len(log) : i < j => Stage(log[i]) <= Stage(log[j])
    /\ StageReached(3) => StageReached(2)
    /\ StageReached(2) => Logged("validateWebhookAuthentication")
    /\ error # 0 => (~StageReached(2) /\ ~StageReached(3))
    /\ ret.thrown = "NodeOperationError" => ~StageReached(3)
    /\ (Done /\ ~BotRejected) => Logged("validateWebhookAuthentication")
    /\ (Done /\ error = 0) => StageReached(2)
    /\ Dispatched => (req.method \in {"GET", "POST"} <=> StageReached(3))
    /\ res.statusCode = 400 => ret.workflowData = << >>

\* A POST was refused by authentication after the credential lookup.
C19_Witness ==
    /\ Done
    /\ req.method = "POST"
    /\ error = 403
    /\ Logged("getCredentials")
    /\ ~StageReached(2)

\* A GET ran all three stages.
C19_WitnessAllStages ==
    /\ Done
    /\ req.method = "GET"
    /\ Logged("isbot") /\ Logged("getCredentials")
    /\ StageReached(2)
    /\ Logged("generateFormHtml")

(***************************************************************************)
(* C20                                                                     *)
(***************************************************************************)

PollingStarted == timerCount > 0

PollPending == timers # {} \/ fetches.runs > 0

\* What each checkExecutionStatus run does with the status it read.
C20_EachRun ==
    LET run == observed.lastRun
    IN  /\ run.status \in RunningStatuses =>
              /\ 10 * run.after - 11 * run.before \in -4..5
              /\ run.scheduled = 1
        /\ run.status \in TerminalStatuses =>
              /\ run.scheduled = 0
              /\ run.after = run.before
              /\ ~document.replaced => run.carded
        /\ run.status = "form-waiting" =>
              /\ run.scheduled = 0
              /\ run.after = run.before
              /\ document.navigated

\* C20 as stated: each run that reads a status that is not final sets
\* interval to round(interval * 1.1), counted from 1000 ms, and schedules
\* exactly one further run; a run that reads a final status shows the card
\* and schedules none; a run that reads form-waiting navigates and
\* schedules none; so polling stops at the first final status and goes on
\* until then.
C20_AsStated ==
    /\ C20_EachRun
    /\ observed.lastRun.status \in RunningStatuses => observed.lastRun.before >= 1000
    /\ observed.lastRun.status \in TerminalStatuses => observed.lastRun.carded
    /\ (PollingStarted /\ document.loaded /\ ~document.navigated /\ ~observed.terminal)
           => PollPending
    /\ observed.terminal => ~PollPending

\* C20 amended: each run that reads a status that is not final sets
\* interval to round(interval * 1.1) and schedules exactly one further run;
\* a run that reads a final status schedules none and shows the card unless
\* the body was replaced; a run that reads form-waiting navigates and
\* schedules none; a run whose fetch fails, or that finds interval 0,
\* schedules none; interval is 1000 until the first such run and 0 once
\* submit has reset it; until a run ends in one of these ways or submit
\* resets interval, a timer or a run is pending.
C20_PollChain ==
    /\ C20_EachRun
    /\ observed.lastRun.status = "fetch failed" =>
           (observed.lastRun.scheduled = 0 /\ observed.lastRun.after = observed.lastRun.before)
    /\ (document.loaded /\ observed.lastRun.status = "") => interval \in {1000, 0}
    /\ (PollingStarted /\ document.loaded /\ ~observed.ended) => PollPending

\* The third run of a chain read a status that is not final: interval went
\* from 1210 to 1331 and one timer is pending.
C20_Witness ==
    /\ observed.lastRun.status \in RunningStatuses
    /\ observed.lastRun.before = 1210
    /\ interval = 1331
    /\ Cardinality(timers) = 1
    /\ fetches.runs = 0

\* A run read success and left nothing pending.
C20_WitnessStop ==
    /\ observed.lastRun.status = "success"
    /\ observed.lastRun.before > 1000
    /\ document.submittedForm = "block"
    /\ ~PollPending

(***************************************************************************)
(* C21                                                                     *)
(***************************************************************************)

\* A run read a final status or form-waiting, or the page navigated.
TerminalReached ==
    \/ observed.lastRun.status \in TerminalStatuses \cup {"form-waiting"}
    \/ document.navigated

\* C21: once a checkExecutionStatus run has read success, null, canceled,
\* crashed or error, or the page has navigated, no checkExecutionStatus
\* timer is pending: none when that run returned, and none while the
\* navigating page is still loaded.
C21_NoTimerAfterTerminal ==
    /\ observed.lastRun.status \in TerminalStatuses \cup {"form-waiting"} =>
           observed.lastRun.pending = 0
    /\ (document.loaded /\ document.navigated) => timers = {}

\* The first half alone, for the runs that read a final status on a page
\* that has #submitted-content and whose body was not replaced.
C21_AfterFinalStatus ==
    (observed.lastRun.status \in TerminalStatuses /\ document.hasContent /\ ~document.replaced)
        => observed.lastRun.pending = 0

(***************************************************************************)
(* C22                                                                     *)
(***************************************************************************)

\* The GET was answered with the page.
PageServed == res.statusCode = 200 /\ res.body = "html"

\* A form node, or a wait node that resumes on form, is wired downstream.
FormContinuationConnected ==
    \E n \in workflow.childNodes :
        \/ n.type = FORM_NODE_TYPE
        \/ n.type = WAIT_NODE_TYPE /\ n.resume = "form"

\* respondWithOptions asks for a redirect and gives a URL that is not empty.
RedirectConfigured ==
    LET respond == params.options.respondWithOptions
    IN  /\ respond.present
        /\ respond.respondWith = "redirect"
        /\ respond.redirectUrl.defined
        /\ respond.redirectUrl.text # << >>

\* C22: with a form node or a wait node that resumes on form downstream,
\* the served page has useResponseData true and no redirect anchor, whatever
\* responseMode and respondWithOptions are; without one, useResponseData is
\* true exactly when responseMode is responseNode, and the redirect anchor
\* is there, with the configured URL, exactly when respondWith is redirect
\* with a redirectUrl that is not empty.
C22_DownstreamFormWins ==
    PageServed =>
        IF FormContinuationConnected
        THEN res.html.useResponseData /\ ~res.html.redirectUrl.defined
        ELSE /\ res.html.useResponseData <=> (params.responseMode = "responseNode")
             /\ res.html.redirectUrl.defined <=> RedirectConfigured
             /\ RedirectConfigured =>
                    res.html.redirectUrl = params.options.respondWithOptions.redirectUrl

\* A page was served under responseMode onReceived with a redirect
\* configured and only a wait node that resumes on form downstream.
C22_Witness ==
    /\ PageServed
    /\ workflow.childNodes = {Node(WAIT_NODE_TYPE, "form")}
    /\ params.responseMode = "onReceived"
    /\ RedirectConfigured
    /\ res.html.useResponseData
    /\ ~res.html.redirectUrl.defined

\* A page was served with the redirect anchor and useResponseData false.
C22_WitnessRedirect ==
    /\ PageServed
    /\ ~FormContinuationConnected
    /\ workflow.childNodes = {Node(WAIT_NODE_TYPE, "webhook")}
    /\ res.html.redirectUrl.defined
    /\ ~res.html.useResponseData

(***************************************************************************)
(* C23                                                                     *)
(***************************************************************************)

\* Every '/' of the literal comes right after a backslash.
NoBareSlash(literal) ==
    \A i \in DOMAIN literal : literal[i] = Slash => (i > 1 /\ literal[i - 1] = Backslash)

\* The literal holds no '</', the start of an end tag.
NoEndTag(literal) ==
    \A i \in DOMAIN literal : literal[i] = LessThan => (i = Len(literal) \/ literal[i + 1] # Slash)

\* The configured string behind each attribute that takes its value as it is.
SlotSource(name) ==
    CASE name = "data" -> params.data
      [] name = "schema" -> Text(SchemaSource(params.jsonSchema))
      [] name = "uischema" -> params.uiSchema
      [] name = "config" -> params.config
      [] name = "vuetify-options" -> params.options.vuetifyOptions
      [] name = "custom-style" -> params.options.customStyle
      [] name = "validation-mode" -> params.options.validationMode
      [] OTHER -> NoText

ValueSlots == {"data", "schema", "uischema", "config", "vuetify-options", "validation-mode"}

OptionalSlots == {"vuetify-options", "custom-style", "validation-mode"}

\* C23: in the served page every attribute value of the custom element is
\* one JavaScript string literal in which every '/' follows a backslash and
\* no '</' occurs, and which the browser reads back as the configured
\* string; an optional slot that is unset has no statement; the readonly
\* attribute is set exactly when options.readonly is true.
C23_AttributesEncoded ==
    PageServed =>
        LET script == res.html.script
            names == { script[i].attr : i \in DOMAIN script }
        IN  /\ \A i \in DOMAIN script :
                  script[i].attr # "readonly" =>
                      /\ NoBareSlash(script[i].literal)
                      /\ NoEndTag(script[i].literal)
                      /\ JsStringValue(script[i].literal).ok
                      /\ script[i].attr \in ValueSlots =>
                             JsStringValue(script[i].literal).value = SlotSource(script[i].attr).text
            /\ \A name \in OptionalSlots : ~SlotSource(name).defined => name \notin names
            /\ \A name \in names \ {"readonly"} : SlotSource(name).defined
            /\ ("readonly" \in names) <=> (params.options.readonly = "true")

\* A page was served whose data, vuetifyOptions and customStyle hold
\* '</script>', with validationMode unset and readonly true.
C23_Witness ==
    /\ PageServed
    /\ params.data = HostileText
    /\ params.options.vuetifyOptions = HostileText
    /\ params.options.customStyle = HostileText
    /\ params.options.validationMode = NoText
    /\ params.options.readonly = "true"
    /\ { res.html.script[i].attr : i \in DOMAIN res.html.script } =
           {"data", "schema", "uischema", "config", "vuetify-options", "custom-style", "readonly"}

\* A page was served with readonly false and no optional slot set.
C23_WitnessBare ==
    /\ PageServed
    /\ params.options.readonly = "false"
    /\ params.options.vuetifyOptions = NoText
    /\ params.options.customStyle = NoText
    /\ { res.html.script[i].attr : i \in DOMAIN res.html.script } =
           {"data", "schema", "uischema", "config"}

(***************************************************************************)
(* C24                                                                     *)
(***************************************************************************)

\* C24: the <style> block of the served page holds sanitizeCustomCss of
\* options.customCss and is left out when that result is empty or
\* undefined; the custom-style attribute, set when options.customStyle is
\* truthy, holds sanitizeCustomCss of options.customStyle.
C24_CssSanitized ==
    PageServed =>
        LET css == sanitizeCustomCss(params.options.customCss)
            style == sanitizeCustomCss(params.options.customStyle)
        IN  /\ res.html.style = (IF Truthy(css) THEN css ELSE NoText)
            /\ AttributeValues(res.html, "custom-style") =
                   (IF Truthy(params.options.customStyle)
                    THEN { [ok |-> TRUE, value |-> style.text] }
                    ELSE {})

\* A page was served whose customCss and customStyle hold markup and text:
\* the <style> block and the attribute are there and differ from what was
\* configured.
C24_Witness ==
    /\ PageServed
    /\ params.options.customCss = HostileText
    /\ params.options.customStyle = HostileText
    /\ res.html.style.defined
    /\ res.html.style # params.options.customCss
    /\ AttributeValues(res.html, "custom-style") # {}
    /\ [ok |-> TRUE, value |-> HostileText.text] \notin AttributeValues(res.html, "custom-style")

\* A page was served whose customCss is markup only: no <style> block.
C24_WitnessEmpty ==
    /\ PageServed
    /\ params.options.customCss = Text(<< LessThan >>)
    /\ ~res.html.style.defined

(***************************************************************************)
(* C25                                                                     *)
(***************************************************************************)

\* Both invocations have returned.
BothDone == pc = "done" /\ parked # << >> /\ parked[1].pc = "done"

\* The error list validate gives for the value under the schema, alone.
OwnErrors(schema, value) == validate(schema, value).errors

C25_WitnessSuspended ==
    /\ pc = "done" /\ req.method = "POST" /\ ret.kind = "webhookResponse"
    /\ parked # << >>
    /\ parked[1].pc = "credentials"
    /\ parked[1].req.method = "POST"

(***************************************************************************)
(* C26                                                                     *)
(***************************************************************************)

RecognizedModes == {"basicAuth", "bearerAuth", "headerAuth", "jwtAuth"}

\* validateWebhookAuthentication has returned without throwing.
Accepted == Logged("validateWebhookAuthentication") /\ pc # "credentials" /\ error = 0

\* C26: validateWebhookAuthentication returns without throwing only when
\* authentication is none, or is one of the four recognized modes and the
\* check against the stored credential passed; under any other value it
\* throws.
C26_OnlyRecognizedAccepted ==
    Accepted =>
        \/ params.authentication = "none"
        \/ /\ params.authentication \in RecognizedModes
           /\ Logged("getCredentials")
           /\ ~CredentialUnavailable
           /\ AuthCode(params.authentication, expectedAuth, req.headers) = 0

(***************************************************************************)
(* C27                                                                     *)
(***************************************************************************)

\* C27: in the loaded page the pending checkExecutionStatus timers and the
\* runs waiting at their fetch are never more than one together, and a
\* pending timer is the one timeoutId names.
C27_OnePollChain ==
    document.loaded =>
        /\ Cardinality(timers) + fetches.runs <= 1
        /\ timers \subseteq {timeoutId}

(***************************************************************************)
(* C28                                                                     *)
(***************************************************************************)

\* The last POST of submit was answered with a status other than 200.
PostRefused == observed.lastSubmit.status \notin {0, 200}

\* C28: when the POST is answered with a status other than 200, submit
\* shows the card with the header 'Problem submitting response', does not
\* replace the document body with the response text and does not navigate,
\* with useResponseData true and false.
C28_FailureCardOnRefusal ==
    PostRefused =>
        /\ observed.lastSubmit.failureCard
        /\ ~observed.lastSubmit.replaced
        /\ ~observed.lastSubmit.navigated

\* The same for the pages whose useResponseData is false and that have
\* #submitted-content.
C28_FailureCardWithoutResponseData ==
    (PostRefused /\ ~document.useResponseData /\ document.hasContent /\ ~document.replaced) =>
        /\ observed.lastSubmit.failureCard
        /\ ~observed.lastSubmit.threw
        /\ ~observed.lastSubmit.replaced
        /\ ~observed.lastSubmit.navigated

(***************************************************************************)
(* C29                                                                     *)
(***************************************************************************)

\* C29: the served page has the #submitted-content paragraph (#n8n-form,
\* #submitted-form and #submitted-header are in every page), and no run of
\* checkExecutionStatus and no submit throws at a read or a write of an
\* element the document does not have.
C29_ElementsExist ==
    /\ PageServed => res.html.submittedContent.defined
    /\ ~observed.lastRun.threw
    /\ ~observed.lastSubmit.threw

\* The same for the pages that have #submitted-content, until a submit
\* replaces the document body.
C29_WithContent ==
    (document.hasContent /\ ~document.replaced) =>
        (~observed.lastRun.threw /\ ~observed.lastSubmit.threw)


(***************************************************************************)
(* C30                                                                     *)
(***************************************************************************)

\* The text a configured string becomes when it is embedded in one of the
\* two ways: as a JSON literal with '/' escaped, or through sanitizeCustomCss.
EmbeddedForms(configured) ==
    { Text(EscapeSlashes(JSONStringify(configured.text))), sanitizeCustomCss(configured) }

\* The completion text the node's parameters configure, if any.
ConfiguredSubmittedText ==
    LET respond == params.options.respondWithOptions
    IN  IF respond.present
        THEN IF respond.respondWith = "text" THEN respond.formSubmittedText ELSE NoText
        ELSE params.options.formSubmittedText

\* C30: in the served page the #submitted-content paragraph that shows a
\* configured completion text, and the href of the #redirectUrl anchor,
\* hold the configured string JSON-encoded with '/' escaped or passed
\* through sanitizeCustomCss, never the configured string as it is.
C30_NoRawString ==
    PageServed =>
        /\ (ConfiguredSubmittedText.defined /\ res.html.submittedContent.defined) =>
               res.html.submittedContent \in EmbeddedForms(ConfiguredSubmittedText)
        /\ res.html.redirectUrl.defined =>
               res.html.redirectUrl \in EmbeddedForms(params.options.respondWithOptions.redirectUrl)

\* The page holds no configured completion text or redirect URL with a '<'
\* or an apostrophe in it.
C30_NoMarkupEmbedded ==
    PageServed =>
        /\ ConfiguredSubmittedText.defined =>
               \A i \in DOMAIN res.html.submittedContent.text :
                   res.html.submittedContent.text[i] # LessThan
        /\ \A i \in DOMAIN res.html.redirectUrl.text :
               res.html.redirectUrl.text[i] # Apostrophe

====
